---- MODULE Spec2Model ----
(***************************************************************************)
(* A model of the QA-agent backend: the test-case generation request       *)
(* (app.py, api/testcase_generation.py, core/rag_agent.py,                 *)
(* models/schemas.py), the ingestion of support documents                  *)
(* (api/ingestion.py, utils/utils.py) and the batched embedding call       *)
(* (core/embedding_manager.py).                                            *)
(*                                                                         *)
(* Text is a sequence of characters.  A character is a one-character       *)
(* string, except the backtick, written "BT".  The lexemes of a JSON       *)
(* document that hold no backtick and are never whitespace (a bracket, a   *)
(* key, one whole entry object) are single elements of the sequence:       *)
(* str.strip, str.startswith, str.endswith and the slices of               *)
(* RagAgent.generate_test_cases only ever look at whitespace and at the    *)
(* backtick fence, so they act on such a sequence exactly as on the        *)
(* characters.                                                             *)
(***************************************************************************)
EXTENDS Integers, Sequences, FiniteSets, TLC

\* The fields of the records of the model and what each holds.  Every record
\* below lists its fields in this order.
RecordFields ==
    [ built |-> "get_embedding_manager: the engines constructed so far",
      chunk_index |-> "Indexed Record: position of the chunk in its document",
      chunks |-> "ingested document: the chunks the splitter produced",
      complete |-> "ingested document: whether every chunk was written",
      detail |-> "HTTP response: the detail of an error",
      document_id |-> "Indexed Record: identifier of the document",
      empty |-> "upload: whether the file holds no byte",
      error |-> "result of run_script",
      exc |-> "result of a call: the exception raised",
      expected_result |-> "Test Case",
      feature |-> "Test Case",
      filename |-> "upload: the name of the file, stem and extension",
      hangs |-> "script: it does not end by itself",
      instance |-> "get_embedding_manager: the engine held and returned",
      items |-> "JSON array: its elements",
      key |-> "JSON object: its key",
      log |-> "result of a call: the log lines written",
      max_test_cases |-> "request payload",
      message |-> "build response",
      metadata |-> "Indexed Record: the chunk's metadata",
      msg |-> "exception: its message",
      num_chunks |-> "build response",
      num_documents |-> "build response",
      ok |-> "result of a call: whether it returned",
      pieces |-> "upload: the chunks the splitter cuts its text into",
      query |-> "request payload; HTTP response: the query answered",
      returncode |-> "script: the status its process exits with",
      selenium_script |-> "script response",
      source_document |-> "Test Case",
      source_file |-> "Indexed Record: name of the uploaded file",
      status |-> "HTTP status, 0 for none",
      stderr |-> "script and result of run_script",
      stdout |-> "script and result of run_script",
      success |-> "result of run_script",
      t |-> "JSON value: list, dict or atom",
      tc |-> "the test case built",
      test_cases |-> "HTTP response: the test cases",
      test_id |-> "Test Case",
      test_scenario |-> "Test Case",
      text |-> "Indexed Record: the chunk's text",
      tok |-> "JSON atom: its lexeme",
      type |-> "exception: its class",
      v |-> "validator: the value returned",
      val |-> "JSON object: its value; result of a call: the value returned",
      valid |-> "upload: whether the parser of its kind can read it",
      vec |-> "embedding vector",
      vector_store |-> "build response: the name of the index" ]

VARIABLES
    index,      \* the vector index: sequence of Indexed Records, insertion order
    api_key,    \* whether GEMINI_API_KEY is set in the process environment
    g_pc,       \* test-case request: idle, embedding, searching, generating, done
    g_req,      \* the request payload [query, max_test_cases]
    g_query,    \* the query as the pipeline uses it (stripped by the handler)
    g_qemb,     \* the query embedding, NoVec before it is obtained
    g_chunks,   \* the chunks the index search returned
    g_searched, \* whether the index search returned
    g_top_k,    \* the top_k the index search was asked for (0: no search yet)
    g_raw,      \* the generative model's response text
    g_called,   \* whether the generative model returned a response
    g_ret,      \* what RagAgent.generate_test_cases returned or raised
    g_out,      \* the HTTP response of the request
    g_log,      \* the error-level log lines of RagAgent.generate_test_cases
    uuids,      \* how many identifiers uuid.uuid4 has given out
    ingested,   \* history: per document given an identifier, its chunks as split
    b_pc,       \* per ingestion batch: idle, extract, embed, add, returned, raised;
                \* of a build also opening, reading, writing, saved, built
    b_files,    \* per batch: the uploaded files, in input order
    b_k,        \* per batch: position in b_files of the file at hand, from 1
    b_chunks,   \* per batch: the chunks of the file at hand
    b_embeddings, \* per batch: the embeddings of those chunks
    b_doc_id,   \* per batch: the document_id of the file at hand
    b_i,        \* per batch: the chunk index the write loop is at, from 0
    b_meta,     \* per batch: support_metadata, the metadata of the chunks written
    b_exc,      \* per batch: the exception that ended it, NoExc if none
    e_pc,       \* embed_texts call: idle, loop, returned, raised
    e_texts,    \* its texts
    e_batch_size, \* its batch_size
    e_i,        \* the offset its loop is at
    e_embeddings, \* the embeddings gathered so far
    e_dispatched, \* the offsets of the batches handed to the worker thread
    e_out,      \* what it returned or raised
    checkout,   \* the stored checkout.html: its text, None when there is no file
    b_checkout, \* per build request: the uploaded checkout file
    b_resp,     \* per build request: the response of a successful build
    s_pc,       \* the text splitter: where it stands
    s_n,        \* the number of characters of the text it splits
    s_d,        \* the split the loop of _merge_splits has come to, from 1
    s_cur,      \* current_doc: the first and the last split it holds
    s_total,    \* total: the length of current_doc
    s_docs,     \* docs: the chunks made so far, each a first and a last split
    sc_pc,      \* the script-generation request: where it stands
    sc_req,     \* the test case of its payload, by the lexeme of the object
    sc_tc,      \* the test case as validated
    sc_context, \* the context handed to the generative model
    sc_called,  \* whether the generative model was called
    sc_raw,     \* the generative model's response to the script prompt
    sc_warned,  \* whether the warning of a script that looks like JSON was logged
    sc_out,     \* the response
    x_pc,       \* run_script: where it stands
    x_script,   \* what the script does when it is run
    x_proc,     \* the process of the script
    x_written,  \* whether the process has written its output to the pipes
    x_tmp,      \* whether the temporary script file exists
    x_ret,      \* what run_script returned
    m_instance, \* _embedding_manager_instance: 0 for None, else the engine
    m_built,    \* how many engines were constructed
    m_pc,       \* per request: where it stands with the engine
    m_used,     \* per request: the engine its last call used, 0 for none
    m_calls     \* per request: how many times it asked for the engine

genVars == <<api_key, g_pc, g_req, g_query, g_qemb, g_chunks, g_searched,
             g_top_k,
             g_raw, g_called, g_ret, g_out, g_log>>

ingVars == <<uuids, ingested, b_pc, b_files, b_k, b_chunks, b_embeddings,
             b_doc_id, b_i, b_meta, b_exc>>

embVars == <<e_pc, e_texts, e_batch_size, e_i, e_embeddings, e_dispatched,
             e_out>>

buildVars == <<checkout, b_checkout, b_resp>>

splitVars == <<s_pc, s_n, s_d, s_cur, s_total, s_docs>>

scriptVars ==
    <<sc_pc, sc_req, sc_tc, sc_context, sc_called, sc_raw, sc_warned, sc_out>>

execVars == <<x_pc, x_script, x_proc, x_written, x_tmp, x_ret>>

mgrVars == <<m_instance, m_built, m_pc, m_used, m_calls>>

moreVars == <<mgrVars>>

laterVars == <<scriptVars, execVars, moreVars>>

restVars == <<splitVars, laterVars>>

notScript ==
    <<index, genVars, ingVars, embVars, buildVars, splitVars, execVars, moreVars>>

notExec ==
    <<index, genVars, ingVars, embVars, buildVars, splitVars, scriptVars, moreVars>>

notMgr ==
    <<index, genVars, ingVars, embVars, buildVars, splitVars, scriptVars, execVars>>

\* What the actions of one component leave alone
notGen == <<ingVars, embVars, buildVars, restVars>>

notEmb == <<index, genVars, ingVars, buildVars, restVars>>

notIng == <<genVars, embVars, buildVars, restVars>>

-----------------------------------------------------------------------------
(* Bounds *)

\* longest list of entries in a generated response
MaxEntries == 3
\* largest requested count drawn for a request (the schema allows up to 50)
MaxCount == 2
\* most records in the index when a test-case request starts
MaxRecords == 4
\* most files uploaded over all ingestion batches
MaxDocs == 3
\* longest list of short texts given to embed_texts
MaxTexts == 3
\* largest batch size drawn for embed_texts besides the default
MaxBatch == 3
\* most support documents in one build request
MaxUploads == 3

-----------------------------------------------------------------------------
(* Python str and list operations *)

Whitespace == {" ", "\n"}

SeqsUpTo(S, n) == UNION {[1..k -> S] : k \in 0..n}

Min(a, b) == IF a < b THEN a ELSE b

\* s[n:]
DropFirst(s, n) == SubSeq(s, n + 1, Len(s))

\* s[:-n], n > 0
DropLast(s, n) == SubSeq(s, 1, Len(s) - n)

StartsWith(s, p) == Len(s) >= Len(p) /\ SubSeq(s, 1, Len(p)) = p

EndsWith(s, p) == Len(s) >= Len(p) /\ SubSeq(s, Len(s) - Len(p) + 1, Len(s)) = p

RECURSIVE LStrip(_)
LStrip(s) == IF s # <<>> /\ Head(s) \in Whitespace THEN LStrip(Tail(s)) ELSE s

RECURSIVE RStrip(_)
RStrip(s) ==
    IF s # <<>> /\ s[Len(s)] \in Whitespace THEN RStrip(DropLast(s, 1)) ELSE s

\* str.strip()
Strip(s) == RStrip(LStrip(s))

\* Python's None where a string is expected
None == <<"<None>">>

-----------------------------------------------------------------------------
(* The JSON documents a response may hold *)

Fields == {"test_id", "feature", "test_scenario", "expected_result"}

\* The entry objects of the responses, by the lexeme that stands for their
\* text.  A key that is absent from the function is absent from the object.
Objects ==
    [ e_feature_blank |->
        [expected_result |-> <<"r">>, feature |-> <<"\n", " ">>, test_id |-> <<"c">>,
         test_scenario |-> <<"s">>],
      e_feature_empty |->
        [expected_result |-> <<"r">>, feature |-> <<>>, test_id |-> <<"c">>,
         test_scenario |-> <<"s">>],
      e_feature_null |->
        [expected_result |-> <<"r">>, feature |-> None, test_id |-> <<"c">>,
         test_scenario |-> <<"s">>],
      e_id_blank |->
        [expected_result |-> <<"r">>, feature |-> <<"f">>, test_id |-> <<" ">>,
         test_scenario |-> <<"s">>],
      e_id_empty |->
        [expected_result |-> <<"r">>, feature |-> <<"f">>, test_id |-> <<>>,
         test_scenario |-> <<"s">>],
      e_id_missing |->
        [expected_result |-> <<"r">>, feature |-> <<"f">>, test_scenario |-> <<"s">>],
      e_nofeature |->
        [expected_result |-> <<"r">>, test_id |-> <<"c">>, test_scenario |-> <<"s">>],
      e_ok |->
        [expected_result |-> <<"r">>, feature |-> <<"f">>, test_id |-> <<"a">>,
         test_scenario |-> <<"s">>],
      e_pad |->
        [expected_result |-> <<"r", " ", "r">>, feature |-> <<"f", "\n">>,
         source_document |-> <<" ", "d">>, test_id |-> <<" ", "b">>,
         test_scenario |-> <<" ", "s", " ">>],
      e_result_blank |->
        [expected_result |-> <<"\n">>, feature |-> <<"f">>, test_id |-> <<"c">>,
         test_scenario |-> <<"s">>],
      e_result_empty |->
        [expected_result |-> <<>>, feature |-> <<"f">>, test_id |-> <<"c">>,
         test_scenario |-> <<"s">>],
      e_result_missing |->
        [feature |-> <<"f">>, test_id |-> <<"c">>, test_scenario |-> <<"s">>],
      e_scenario_blank |->
        [expected_result |-> <<"r">>, feature |-> <<"f">>, test_id |-> <<"c">>,
         test_scenario |-> <<" ", " ">>],
      e_scenario_empty |->
        [expected_result |-> <<"r">>, feature |-> <<"f">>, test_id |-> <<"c">>,
         test_scenario |-> <<>>],
      e_scenario_missing |->
        [expected_result |-> <<"r">>, feature |-> <<"f">>, test_id |-> <<"c">>] ]

ObjectToks == DOMAIN Objects

\* JSON scalars: a number, a string, null
ScalarToks == {"7", "str", "null"}

AtomToks == ObjectToks \cup ScalarToks

KeyToks == {"test_cases", "cases"}

\* The values json.loads can return for these documents
JAtom(tok) == [t |-> "atom", tok |-> tok]
JList(items) == [items |-> items, t |-> "list"]
JDict(key, val) == [key |-> key, t |-> "dict", val |-> val]
JEmptyDict == [key |-> "", t |-> "dict", val |-> JAtom("null")]

\* The elements of a JSON array's text between the brackets: atoms separated
\* by commas.  ok is FALSE when the text is no such list.
RECURSIVE ParseItems(_)
ParseItems(toks) ==
    IF toks = <<>> THEN [items |-> <<>>, ok |-> TRUE]
    ELSE IF Head(toks) \notin AtomToks THEN [items |-> <<>>, ok |-> FALSE]
    ELSE IF Len(toks) = 1 THEN [items |-> <<Head(toks)>>, ok |-> TRUE]
    ELSE IF toks[2] # "," \/ Len(toks) = 2 THEN [items |-> <<>>, ok |-> FALSE]
    ELSE LET rest == ParseItems(DropFirst(toks, 2))
         IN  [items |-> <<Head(toks)>> \o rest.items, ok |-> rest.ok]

\* A JSON value that is not an object
ParseInner(t) ==
    IF Len(t) = 1 /\ t[1] \in AtomToks THEN [ok |-> TRUE, val |-> JAtom(t[1])]
    ELSE IF Len(t) >= 2 /\ t[1] = "[" /\ t[Len(t)] = "]"
    THEN LET r == ParseItems(SubSeq(t, 2, Len(t) - 1))
         IN  [ok |-> r.ok, val |-> JList(r.items)]
    ELSE [ok |-> FALSE, val |-> JAtom("null")]

\* json.loads: whitespace between lexemes is skipped; a document is an atom, an
\* array of atoms, {} or an object of one key; anything else is a
\* JSONDecodeError (ok = FALSE).
JsonLoads(text) ==
    LET t == SelectSeq(text, LAMBDA c : c \notin Whitespace)
    IN  IF t = <<"{", "}">> THEN [ok |-> TRUE, val |-> JEmptyDict]
        ELSE IF Len(t) >= 5 /\ t[1] = "{" /\ t[2] \in KeyToks /\ t[3] = ":"
                /\ t[Len(t)] = "}"
        THEN LET r == ParseInner(SubSeq(t, 4, Len(t) - 1))
             IN  [ok |-> r.ok, val |-> JDict(t[2], r.val)]
        ELSE ParseInner(t)

\* isinstance(v, list)
IsList(v) == v.t = "list"

\* isinstance(v, dict): an object of the grammar, or one entry object
IsDict(v) == v.t = "dict" \/ (v.t = "atom" /\ v.tok \in ObjectToks)

\* key in v, for a dict v
HasKey(v, key) ==
    IF v.t = "dict" THEN v.key = key ELSE key \in DOMAIN Objects[v.tok]

\* v[key], for a dict v holding key (no entry object holds "test_cases")
GetItem(v, key) == v.val

-----------------------------------------------------------------------------
(* Exceptions and HTTP responses *)

HTTPException(status, detail) ==
    [msg |-> detail, status |-> status, type |-> "HTTPException"]

RuntimeError(msg) == [msg |-> msg, status |-> 0, type |-> "RuntimeError"]

ValueError(msg) == [msg |-> msg, status |-> 0, type |-> "ValueError"]

TypeError(msg) == [msg |-> msg, status |-> 0, type |-> "TypeError"]

JSONDecodeError == [msg |-> <<"Expecting value">>, status |-> 0, type |-> "JSONDecodeError"]

NoExc == [msg |-> <<>>, status |-> 0, type |-> "none"]

\* str(exc); starlette's HTTPException prints as "<status>: <detail>"
StrExc(exc) ==
    IF exc.type = "HTTPException"
    THEN <<ToString(exc.status), ": ">> \o exc.msg
    ELSE exc.msg

\* The response FastAPI sends for an HTTPException, and the one for a result
ErrorResponse(exc) ==
    [detail |-> exc.msg, query |-> <<>>, status |-> exc.status, test_cases |-> <<>>]

\* TestCaseGenerationResponse(query, test_cases), sent with status 200
OkResponse(query, test_cases) ==
    [detail |-> <<>>, query |-> query, status |-> 200, test_cases |-> test_cases]

NoResponse == [detail |-> <<>>, query |-> <<>>, status |-> 0, test_cases |-> <<>>]

-----------------------------------------------------------------------------
(* RagAgent.generate_test_cases, from the model's response on *)

FenceJson == <<"BT", "BT", "BT", "j", "s", "o", "n">>

FenceEnd == <<"BT", "BT", "BT">>

\* rag_agent.py 73-77: strip, then drop a leading ```json and a trailing ```
CleanTestCaseText(text) ==
    LET c0 == Strip(text)
        c1 == IF StartsWith(c0, FenceJson) THEN DropFirst(c0, 7) ELSE c0
    IN  IF EndsWith(c1, FenceEnd) THEN DropLast(c1, 3) ELSE c1

\* Variant: only a list is taken, the "test_cases" wrapper is not unwrapped
UnwrapTestCases_ListOnly(v) ==
    IF IsList(v) THEN [exc |-> NoExc, ok |-> TRUE, val |-> v]
    ELSE [exc |-> ValueError(<<"Expected list of test cases JSON.">>), ok |-> FALSE,
          val |-> v]

\* rag_agent.py 81-86: a list, or the value under "test_cases" of a dict
UnwrapTestCases(v) ==
    IF IsList(v) THEN [exc |-> NoExc, ok |-> TRUE, val |-> v]
    ELSE IF IsDict(v) /\ HasKey(v, "test_cases")
    THEN [exc |-> NoExc, ok |-> TRUE, val |-> GetItem(v, "test_cases")]
    ELSE [exc |-> ValueError(<<"Expected list of test cases JSON.">>), ok |-> FALSE,
          val |-> v]

\* Variant: the except clause logs the failure without the raw response
ParseExcept_NoRawLog(ex, llm_response_text) ==
    [exc |-> RuntimeError(<<"Invalid JSON output from Gemini LLM.">>),
     log |-> << <<"Failed to parse Gemini output JSON: ">> \o StrExc(ex) >>,
     ok |-> FALSE,
     val |-> JAtom("null")]

\* rag_agent.py 88-91: the except clause logs the failure and the raw
\* response, and raises a RuntimeError with a fixed message
ParseExcept(ex, llm_response_text) ==
    [exc |-> RuntimeError(<<"Invalid JSON output from Gemini LLM.">>),
     log |-> << <<"Failed to parse Gemini output JSON: ">> \o StrExc(ex),
                <<"Raw response: ">> \o llm_response_text >>,
     ok |-> FALSE,
     val |-> JAtom("null")]

\* rag_agent.py 71-93, once _call_gemini_api returned llm_response_text
ParseTestCases(llm_response_text) ==
    LET loaded == JsonLoads(CleanTestCaseText(llm_response_text))
        unwrapped == UnwrapTestCases(loaded.val)
    IN  IF ~loaded.ok THEN ParseExcept(JSONDecodeError, llm_response_text)
        ELSE IF ~unwrapped.ok THEN ParseExcept(unwrapped.exc, llm_response_text)
        ELSE [exc |-> NoExc, log |-> <<>>, ok |-> TRUE, val |-> unwrapped.val]

\* rag_agent.py 39-56 raising: the call failed
LlmCallFailed ==
    [exc |-> RuntimeError(<<"Gemini LLM call failed: ", "error">>), log |-> <<>>,
     ok |-> FALSE, val |-> JAtom("null")]

NoRet == [exc |-> NoExc, log |-> <<>>, ok |-> FALSE, val |-> JAtom("null")]

-----------------------------------------------------------------------------
(* TestCaseBase and the filter and cap of generate_test_cases_for_query *)

\* entry.get(key): the value, or None when the key is absent
EntryGet(tok, key) ==
    IF key \in DOMAIN Objects[tok] THEN Objects[tok][key] ELSE None

\* Variant: the validator refuses the empty string only, not a blank one
non_empty_strings_NoStripTest(v) ==
    IF v = <<>>
    THEN [ok |-> FALSE, v |-> <<>>]
    ELSE [ok |-> TRUE, v |-> Strip(v)]

\* schemas.py 19-23: the validator of the four required fields; ok is FALSE
\* when it raises
non_empty_strings(v) ==
    IF v = <<>> \/ Strip(v) = <<>>
    THEN [ok |-> FALSE, v |-> <<>>]
    ELSE [ok |-> TRUE, v |-> Strip(v)]

\* schemas.py 10-23: TestCaseBase(**values).  A required str field refuses
\* None; the validator then runs on each of the four fields.
TestCaseBase(test_id, feature, test_scenario, expected_result, source_document) ==
    LET given == <<test_id, feature, test_scenario, expected_result>>
        checked == [i \in 1..4 |-> non_empty_strings(given[i])]
    IN  IF \E i \in 1..4 : given[i] = None \/ ~checked[i].ok
        THEN [ok |-> FALSE, tc |-> [f \in {} |-> <<>>]]
        ELSE [ok |-> TRUE,
              tc |-> [expected_result |-> checked[4].v, feature |-> checked[2].v,
                      source_document |-> source_document,
                      test_id |-> checked[1].v,
                      test_scenario |-> checked[3].v]]

\* testcase_generation.py 73-85: one turn of the loop.  entry.get raises
\* AttributeError on an entry that is no object; either failure skips the entry.
BuildTestCase(entry) ==
    IF entry \notin ObjectToks
    THEN [ok |-> FALSE, tc |-> [f \in {} |-> <<>>]]
    ELSE TestCaseBase(EntryGet(entry, "test_id"), EntryGet(entry, "feature"),
                      EntryGet(entry, "test_scenario"),
                      EntryGet(entry, "expected_result"),
                      EntryGet(entry, "source_document"))

\* testcase_generation.py 71-85: the loop over the entries, in order
RECURSIVE FilterEntries(_)
FilterEntries(entries) ==
    IF entries = <<>> THEN <<>>
    ELSE LET built == BuildTestCase(Head(entries))
         IN  (IF built.ok THEN <<built.tc>> ELSE <<>>) \o FilterEntries(Tail(entries))

\* Variant: the list is not cut to the requested count
LimitResults_Uncapped(test_cases, max_test_cases) == test_cases

\* testcase_generation.py 88-89
LimitResults(test_cases, max_test_cases) ==
    IF Len(test_cases) > max_test_cases
    THEN SubSeq(test_cases, 1, max_test_cases)
    ELSE test_cases

\* What `for entry in test_cases_raw` iterates over: the items of a list, the
\* keys of a dict, the characters of a string; a number or null is not iterable.
IterEntries(v) ==
    IF v.t = "list" THEN [items |-> v.items, ok |-> TRUE]
    ELSE IF v.t = "dict" THEN [items |-> <<"str">>, ok |-> TRUE]
    ELSE IF v.tok \in ObjectToks
    THEN [items |-> [i \in 1..Cardinality(DOMAIN Objects[v.tok]) |-> "str"], ok |-> TRUE]
    ELSE IF v.tok = "str" THEN [items |-> <<"str">>, ok |-> TRUE]
    ELSE [items |-> <<>>, ok |-> FALSE]

\* testcase_generation.py 95-98: the except clause of the generation block
GenerationExcept(exc) ==
    HTTPException(500, <<"Test case generation failed: ">> \o StrExc(exc))

\* testcase_generation.py 65-103, once agent.generate_test_cases returned or
\* raised (ret): the response of the request
GenerationOutcome(ret, query, max_test_cases) ==
    IF ~ret.ok THEN ErrorResponse(GenerationExcept(ret.exc))
    ELSE LET it == IterEntries(ret.val)
             test_cases == LimitResults(FilterEntries(it.items), max_test_cases)
         IN  IF ~it.ok
             THEN ErrorResponse(GenerationExcept(
                      TypeError(<<"object is not iterable">>)))
             ELSE IF test_cases = <<>>
             THEN ErrorResponse(GenerationExcept(
                      HTTPException(404, <<"No valid test cases generated.">>)))
             ELSE OkResponse(query, test_cases)

-----------------------------------------------------------------------------
(* The embedding engine: EmbeddingManager.embed_texts *)

\* embedding_manager.py 26: the default batch_size
DefaultBatchSize == 16

\* The vector the model gives a text: the same text, the same vector
Embedding(text) == [vec |-> text]

NoVec == [vec |-> None]

\* embedding_manager.py 33-44: one row per text of the batch, in order
embed_batch(batch_texts) ==
    [k \in 1..Len(batch_texts) |-> Embedding(batch_texts[k])]

\* Variant: the slice stops one text short of the batch
Batch_OneShort(texts, i, batch_size) ==
    SubSeq(texts, i + 1, Min(i + batch_size, Len(texts)) - 1)

\* Variant: every slice is taken from the start of the list
Batch_FromStart(texts, i, batch_size) ==
    SubSeq(texts, 1, Min(batch_size, Len(texts)))

\* texts[i : i + batch_size], i counted from 0
Batch(texts, i, batch_size) ==
    SubSeq(texts, i + 1, Min(i + batch_size, Len(texts)))

\* embedding_manager.py 46-55 when no batch fails: the loop from offset i on
RECURSIVE EmbedFrom(_, _, _, _)
EmbedFrom(texts, i, batch_size, embeddings) ==
    IF i >= Len(texts) THEN embeddings
    ELSE EmbedFrom(texts, i + batch_size, batch_size,
                   embeddings \o embed_batch(Batch(texts, i, batch_size)))

embed_texts(texts, batch_size) == EmbedFrom(texts, 0, batch_size, <<>>)

\* rag_agent.py 58-65: RagAgent.generate_embedding on a successful embed_texts
generate_embedding(text) ==
    LET embeddings == embed_texts(<<text>>, DefaultBatchSize)
    IN  IF embeddings # <<>> /\ Len(embeddings) = 1
        THEN [ok |-> TRUE, vec |-> embeddings[1]]
        ELSE [ok |-> FALSE, vec |-> NoVec]

-----------------------------------------------------------------------------
(* The vector index: VectorStore.add_vector and similarity_search *)

Record(embedding, metadata) == [metadata |-> metadata, vec |-> embedding]

\* add(vector, metadata) stores one record
AddVector(idx, embedding, metadata) == Append(idx, Record(embedding, metadata))

\* The similarity of two vectors
Score(q, v) ==
    IF q = v THEN 2
    ELSE IF q.vec # <<>> /\ v.vec # <<>> /\ Head(q.vec) = Head(v.vec) THEN 1
    ELSE 0

\* search(query_vector, top_k): up to top_k records by descending similarity,
\* ties by insertion order; an empty index gives an empty sequence
SimilaritySearch(idx, q, top_k) ==
    LET Better(i, j) ==
            \/ Score(q, idx[i].vec) > Score(q, idx[j].vec)
            \/ Score(q, idx[i].vec) = Score(q, idx[j].vec) /\ i < j
        Rank(i) == Cardinality({j \in 1..Len(idx) : Better(j, i)}) + 1
    IN  [r \in 1..Min(top_k, Len(idx)) |->
            idx[CHOOSE i \in 1..Len(idx) : Rank(i) = r]]

\* Chunk texts
ChunkTexts == << <<"a", "x">>, <<"b", "y">>, <<"a", "z">> >>

\* The index after whole documents of two chunks were ingested one after the
\* other: record r is chunk (r - 1) % 2 of document (r - 1) \div 2
SampleIndex ==
    [r \in 1..MaxRecords |->
        LET text == ChunkTexts[((r - 1) % Len(ChunkTexts)) + 1]
        IN  Record(Embedding(text),
                   [chunk_index |-> (r - 1) % 2, document_id |-> (r - 1) \div 2,
                    source_file |-> <<"guide", ".txt">>, text |-> text])]

-----------------------------------------------------------------------------
(* The test-case generation request: POST /generate-test-cases *)

\* schemas.py 26: the query's min_length and max_length
MinQueryLength == 3
MaxQueryLength == 512
\* schemas.py 27 and testcase_generation.py 22: the range of max_test_cases
MinTestCases == 1
MaxTestCases == 50
\* testcase_generation.py 42: top_k = min(max_test_cases * 3, 20)
TopKFactor == 3
TopKCap == 20

Queries ==
    { <<"a", "b", "c">>, <<" ", " ", "a">>, <<" ", "\n", " ">>, <<"a", "b">> }

Counts == (0..MaxCount) \cup {MaxTestCases, MaxTestCases + 1}

\* schemas.py 25-27: TestCaseGenerationRequest accepts the payload
ValidRequest(payload) ==
    /\ Len(payload.query) >= MinQueryLength
    /\ Len(payload.query) <= MaxQueryLength
    /\ payload.max_test_cases >= MinTestCases
    /\ payload.max_test_cases <= MaxTestCases

\* testcase_generation.py 54-60: the except clause of the retrieval block
RetrievalExcept(exc) == HTTPException(500, <<"Vector retrieval failed.">>)

\* testcase_generation.py 47-53
NoChunksException ==
    HTTPException(404, <<"No relevant documents found for the query.">>)

\* Variant: the cap is left out
TopK_Uncapped(max_test_cases) == max_test_cases * TopKFactor

\* testcase_generation.py 42
TopK(max_test_cases) == Min(max_test_cases * TopKFactor, TopKCap)

GenFinish(out) ==
    /\ g_pc' = "done"
    /\ g_out' = out

\* app.py 186-204 and testcase_generation.py 22-37: the request is validated,
\* the query stripped, the agent constructed and the query embedding awaited
GenRequest(payload) ==
    /\ g_pc = "idle"
    /\ g_req' = payload
    /\ g_query' = Strip(payload.query)
    /\ IF ~ValidRequest(payload)
       THEN GenFinish(ErrorResponse(HTTPException(422, <<"validation error">>)))
       ELSE IF Strip(payload.query) = <<>>
       THEN GenFinish(ErrorResponse(HTTPException(400, <<"Query must not be empty.">>)))
       ELSE IF payload.max_test_cases < MinTestCases
               \/ payload.max_test_cases > MaxTestCases
       THEN GenFinish(ErrorResponse(HTTPException(400,
                <<"max_test_cases must be between 1 and 50.">>)))
       ELSE IF ~api_key
       THEN GenFinish(ErrorResponse(RetrievalExcept(
                ValueError(<<"GOOGLE_API_KEY not found in environment variables">>))))
       ELSE g_pc' = "embedding" /\ g_out' = g_out
    /\ UNCHANGED <<notGen, index, api_key, g_qemb, g_chunks,
                   g_searched, g_top_k, g_raw, g_called, g_ret, g_log>>

\* testcase_generation.py 37-43: the embedding arrives, top_k is computed and
\* the search is awaited
GenEmbedded ==
    /\ g_pc = "embedding"
    /\ LET e == generate_embedding(g_query)
       IN  IF e.ok
           THEN /\ g_qemb' = e.vec
                /\ g_top_k' = TopK(g_req.max_test_cases)
                /\ g_pc' = "searching"
                /\ g_out' = g_out
           ELSE /\ g_qemb' = g_qemb
                /\ g_top_k' = g_top_k
                /\ GenFinish(ErrorResponse(RetrievalExcept(RuntimeError(
                       <<"Embedding generation failed or returned unexpected result.">>))))
    /\ UNCHANGED <<notGen, index, api_key, g_req, g_query, g_chunks,
                   g_searched, g_raw, g_called, g_ret, g_log>>

\* embedding_manager.py 51-53 under testcase_generation.py 54-60: a batch fails
GenEmbedFails ==
    /\ g_pc = "embedding"
    /\ GenFinish(ErrorResponse(RetrievalExcept(RuntimeError(
           <<"Embedding failed at batch starting ", "0">>))))
    /\ UNCHANGED <<notGen, index, api_key, g_req, g_query, g_qemb,
                   g_chunks, g_searched, g_top_k, g_raw, g_called, g_ret, g_log>>

\* Variant: the generative call is made also when the search found no chunk
GenSearched_EmptyGoesOn ==
    /\ g_pc = "searching"
    /\ g_chunks' = SimilaritySearch(index, g_qemb, g_top_k)
    /\ g_searched' = TRUE
    /\ g_pc' = "generating"
    /\ UNCHANGED <<notGen, index, api_key, g_req, g_query, g_qemb, g_top_k,
                   g_raw, g_called, g_ret, g_out, g_log>>

\* Variant: the search takes the records it returns out of the index
GenSearched_Consuming ==
    /\ g_pc = "searching"
    /\ LET relevant_chunks ==
               SimilaritySearch(index, g_qemb, g_top_k)
       IN  /\ g_chunks' = relevant_chunks
           /\ g_searched' = TRUE
           /\ index' = SelectSeq(index,
                  LAMBDA r : \A k \in 1..Len(relevant_chunks) : relevant_chunks[k] # r)
           /\ IF relevant_chunks = <<>>
              THEN GenFinish(ErrorResponse(RetrievalExcept(NoChunksException)))
              ELSE g_pc' = "generating" /\ g_out' = g_out
    /\ UNCHANGED <<notGen, api_key, g_req, g_query, g_qemb, g_top_k,
                   g_raw, g_called, g_ret, g_log>>

\* testcase_generation.py 43-67: the search returns; no chunk raises the 404
\* inside the try block, whose except clause catches it; otherwise the context
\* is joined and the generative call awaited
GenSearched ==
    /\ g_pc = "searching"
    /\ LET relevant_chunks ==
               SimilaritySearch(index, g_qemb, g_top_k)
       IN  /\ g_chunks' = relevant_chunks
           /\ g_searched' = TRUE
           /\ IF relevant_chunks = <<>>
              THEN GenFinish(ErrorResponse(RetrievalExcept(NoChunksException)))
              ELSE g_pc' = "generating" /\ g_out' = g_out
    /\ UNCHANGED <<notGen, index, api_key, g_req, g_query, g_qemb, g_top_k,
                   g_raw, g_called, g_ret, g_log>>

\* testcase_generation.py 43 under 54-60: the index query fails
GenSearchFails ==
    /\ g_pc = "searching"
    /\ GenFinish(ErrorResponse(RetrievalExcept(RuntimeError(<<"index query failed">>))))
    /\ UNCHANGED <<notGen, index, api_key, g_req, g_query, g_qemb,
                   g_chunks, g_searched, g_top_k, g_raw, g_called, g_ret, g_log>>

\* rag_agent.py 71-93 and testcase_generation.py 67-103: the model answers; the
\* response is parsed, filtered and capped with no await in between
GenGenerated(llm_response_text) ==
    /\ g_pc = "generating"
    /\ LET ret == ParseTestCases(llm_response_text)
       IN  /\ g_raw' = llm_response_text
           /\ g_called' = TRUE
           /\ g_ret' = ret
           /\ g_log' = g_log \o ret.log
           /\ GenFinish(GenerationOutcome(ret, g_query, g_req.max_test_cases))
    /\ UNCHANGED <<notGen, index, api_key, g_req, g_query, g_qemb,
                   g_chunks, g_searched, g_top_k>>

\* rag_agent.py 54-56: the generative call fails
GenCallFails ==
    /\ g_pc = "generating"
    /\ g_ret' = LlmCallFailed
    /\ GenFinish(GenerationOutcome(LlmCallFailed, g_query, g_req.max_test_cases))
    /\ UNCHANGED <<notGen, index, api_key, g_req, g_query, g_qemb,
                   g_chunks, g_searched, g_top_k, g_raw, g_called, g_log>>

-----------------------------------------------------------------------------
(* The responses of the generative model *)

RECURSIVE Join(_)
Join(items) ==
    IF Len(items) <= 1 THEN items
    ELSE <<Head(items), ",">> \o Join(Tail(items))

\* The text of a JSON array of entries
ListText(items) == <<"[">> \o Join(items) \o <<"]">>

\* The text of a JSON object of one key
WrapText(key, body) == <<"{", key, ":">> \o body \o <<"}">>

\* A markdown code fence around a body: the opening fence with its language
\* tag, if any, on a line of its own, and the closing fence
FencePlain == <<"BT", "BT", "BT">>

Fenced(open, body) == open \o <<"\n">> \o body \o <<"\n">> \o FenceEnd

CoreToks == {"e_ok", "e_pad", "e_nofeature", "7"}

DefectToks == ObjectToks \ {"e_ok", "e_pad"}

EntryLists ==
    SeqsUpTo(CoreToks, MaxEntries)
        \cup {<<d>> : d \in DefectToks}
        \cup {<<"e_pad", d, "e_ok">> : d \in DefectToks}
        \cup {<<"str">>, <<"null", "e_ok">>}

SmallLists == SeqsUpTo(CoreToks, MaxEntries - 1)

\* The bodies that are a list of entries, bare or under "test_cases"
SmallBodies ==
    {ListText(l) : l \in SmallLists}
        \cup {WrapText("test_cases", ListText(l)) : l \in SmallLists}

\* Documents that are no list of entries, and texts that are no JSON
OtherBodies ==
    {WrapText("cases", ListText(l)) : l \in {<<>>, <<"e_ok">>}}
        \cup {WrapText("test_cases", <<a>>) : a \in {"7", "str", "null", "e_ok"}}
        \cup { <<"{", "}">>, <<"e_ok">>, <<"7">>, <<>>, <<"[", "e_ok">>,
               <<"[", "e_ok", ",", "]">>, <<"s", "o", "n">> }

Responses ==
    {ListText(l) : l \in EntryLists}
        \cup {WrapText("test_cases", ListText(l)) : l \in EntryLists}
        \cup OtherBodies
        \cup {Fenced(open, b) : open \in {FenceJson, FencePlain}, b \in SmallBodies}
        \cup {<<" ", "\n">> \o Fenced(FenceJson, b) \o <<"\n">> : b \in SmallBodies}
        \cup {<<"\n">> \o b \o <<" ">> : b \in SmallBodies}
        \cup {FenceJson \o <<"\n">> \o b : b \in SmallBodies}
        \cup {b \o <<"\n">> \o FenceEnd : b \in SmallBodies}

-----------------------------------------------------------------------------
(* EmbeddingManager.embed_texts, one batch at a time *)

TextPool == {ChunkTexts[k] : k \in 1..Len(ChunkTexts)}

\* A list longer than one default batch
LongTexts == [k \in 1..(DefaultBatchSize + 1) |-> <<"c", ToString(k)>>]

EmbedInputs == SeqsUpTo(TextPool, MaxTexts) \cup {LongTexts}

BatchSizes == (1..MaxBatch) \cup {DefaultBatchSize}

NoEmbeddings == [exc |-> NoExc, ok |-> FALSE, val |-> <<>>]

\* embedding_manager.py 26-31: the call starts with no embedding gathered
EmbedCall(texts, batch_size) ==
    /\ e_pc = "idle"
    /\ e_pc' = "loop"
    /\ e_texts' = texts
    /\ e_batch_size' = batch_size
    /\ e_i' = 0
    /\ e_embeddings' = <<>>
    /\ e_dispatched' = <<>>
    /\ UNCHANGED <<e_out, notEmb>>

\* embedding_manager.py 46-50: one turn of the loop, the batch embedded
EmbedBatch ==
    /\ e_pc = "loop"
    /\ e_i < Len(e_texts)
    /\ e_embeddings' =
           e_embeddings \o embed_batch(Batch(e_texts, e_i, e_batch_size))
    /\ e_i' = e_i + e_batch_size
    /\ e_dispatched' = Append(e_dispatched, e_i)
    /\ UNCHANGED <<e_pc, e_texts, e_batch_size, e_out, notEmb>>

\* Variant: a failed batch is skipped and what was gathered is returned
EmbeddingFailed_Skipped(i, embeddings) ==
    [exc |-> NoExc, ok |-> TRUE, val |-> embeddings]

\* embedding_manager.py 51-53: the except clause raises a RuntimeError that
\* names the offset i of the batch; the embeddings gathered are dropped
EmbeddingFailed(i, embeddings) ==
    [exc |-> RuntimeError(<<"Embedding failed at batch starting ", ToString(i),
                            ": ", "error">>),
     ok |-> FALSE, val |-> <<>>]

\* embedding_manager.py 47-53: the batch is handed to the worker thread and
\* fails, and the call raises
EmbedBatchFails ==
    /\ e_pc = "loop"
    /\ e_i < Len(e_texts)
    /\ e_pc' = "raised"
    /\ e_dispatched' = Append(e_dispatched, e_i)
    /\ e_out' = EmbeddingFailed(e_i, e_embeddings)
    /\ UNCHANGED <<e_texts, e_batch_size, e_i, e_embeddings, notEmb>>

\* embedding_manager.py 46 and 55: the range is exhausted and the list returned
EmbedReturn ==
    /\ e_pc = "loop"
    /\ e_i >= Len(e_texts)
    /\ e_pc' = "returned"
    /\ e_out' = [exc |-> NoExc, ok |-> TRUE, val |-> e_embeddings]
    /\ UNCHANGED <<e_texts, e_batch_size, e_i, e_embeddings, e_dispatched,
                   notEmb>>

-----------------------------------------------------------------------------
(* The ingestion of support documents: ingest_support_documents *)

\* The handlers that ingest at the same time
Batches == {"b1", "b2"}

\* An upload is its filename (stem and extension), whether it holds no byte,
\* whether the parser of its kind can read it, and the chunks the splitter cuts
\* the extracted text into.
Uploads ==
    { [empty |-> FALSE, filename |-> <<"guide", ".txt">>,
       pieces |-> <<ChunkTexts[1], ChunkTexts[2]>>, valid |-> TRUE],
      [empty |-> FALSE, filename |-> <<"notes", ".md">>,
       pieces |-> <<ChunkTexts[3]>>, valid |-> TRUE],
      [empty |-> FALSE, filename |-> <<"bad", ".json">>,
       pieces |-> <<>>, valid |-> FALSE],
      [empty |-> TRUE, filename |-> <<"empty", ".txt">>,
       pieces |-> <<>>, valid |-> TRUE] }

\* os.path.splitext(filename)[1].lower()
Ext(filename) == filename[Len(filename)]

\* utils.py 9-34: the 400 of an empty file is raised inside the try block and
\* leaves as a 500
save_uploaded_file(upload_file) ==
    IF upload_file.filename = <<>>
    THEN [exc |-> HTTPException(400, <<"Uploaded file must have a filename.">>),
          ok |-> FALSE]
    ELSE IF upload_file.empty
    THEN [exc |-> HTTPException(500,
                      <<"Failed to save file ">> \o upload_file.filename \o <<": ">>
                          \o StrExc(HTTPException(400,
                                 <<"File ">> \o upload_file.filename
                                     \o <<" is empty.">>))),
          ok |-> FALSE]
    ELSE [exc |-> NoExc, ok |-> TRUE]

\* ingestion.py 37-66 with utils.py 36-104: the parser of the file's extension;
\* an HTTPException of a parser is raised again as it is, any other exception
\* becomes a 500
ParseUpload(file) ==
    LET ext == Ext(file.filename)
        Raised(exc) == [exc |-> exc, ok |-> FALSE]
    IN  IF ext \notin {".pdf", ".json", ".txt", ".md", ".html", ".htm"}
        THEN Raised(HTTPException(415,
                 <<"Unsupported file type: ", ext, " for file ">> \o file.filename))
        ELSE IF file.valid THEN [exc |-> NoExc, ok |-> TRUE]
        ELSE IF ext = ".pdf"
        THEN Raised(HTTPException(500, <<"Failed to open PDF: ", "error">>))
        ELSE IF ext = ".json"
        THEN Raised(HTTPException(400, <<"Invalid JSON file: ">> \o JSONDecodeError.msg))
        ELSE IF ext \in {".txt", ".md"}
        THEN Raised(HTTPException(500,
                 <<"Error parsing file ">> \o file.filename
                     \o <<": ", "codec can't decode">>))
        ELSE Raised(HTTPException(500, <<"Failed to read HTML file: ", "error">>))

\* ingestion.py 71-72: the chunks of the extracted text
split_text(file) == file.pieces

\* ingestion.py 88: a fresh identifier
uuid4(given) == given + 1

\* Variant: chunk_index counted from 1
ChunkMetadata_FromOne(doc_id, i, filename, chunk) ==
    [chunk_index |-> i + 1, document_id |-> doc_id, source_file |-> filename,
     text |-> chunk]

\* ingestion.py 90-95
ChunkMetadata(doc_id, i, filename, chunk) ==
    [chunk_index |-> i, document_id |-> doc_id, source_file |-> filename,
     text |-> chunk]

RECURSIVE Submitted(_)
Submitted(bs) ==
    IF bs = {} THEN 0
    ELSE LET b == CHOOSE x \in bs : TRUE
         IN  Len(b_files[b]) + Submitted(bs \ {b})

\* ingestion.py 17-32: a batch of files arrives; with no file the loop is
\* skipped and the empty list returned
IngestStart(b, files) ==
    /\ b_pc[b] = "idle"
    /\ Len(files) + Submitted(Batches) <= MaxDocs
    /\ b_files' = [b_files EXCEPT ![b] = files]
    /\ b_pc' = [b_pc EXCEPT ![b] = IF files = <<>> THEN "returned" ELSE "extract"]
    /\ UNCHANGED <<uuids, ingested, b_k, b_chunks, b_embeddings, b_doc_id, b_i,
                   b_meta, b_exc, index, notIng>>

\* ingestion.py 33-74: the file is saved, parsed by its extension and split;
\* an exception of either step leaves the function
IngestExtract(b) ==
    /\ b_pc[b] = "extract"
    /\ LET file == b_files[b][b_k[b]]
           saved == save_uploaded_file(file)
           parsed == ParseUpload(file)
       IN  IF ~saved.ok \/ ~parsed.ok
           THEN /\ b_pc' = [b_pc EXCEPT ![b] = "raised"]
                /\ b_exc' = [b_exc EXCEPT
                                ![b] = IF ~saved.ok THEN saved.exc ELSE parsed.exc]
                /\ b_chunks' = b_chunks
           ELSE /\ b_pc' = [b_pc EXCEPT ![b] = "embed"]
                /\ b_exc' = b_exc
                /\ b_chunks' = [b_chunks EXCEPT ![b] = split_text(file)]
    /\ UNCHANGED <<uuids, ingested, b_files, b_k, b_embeddings, b_doc_id, b_i,
                   b_meta, index, notIng>>

\* ingestion.py 32 and 101-103: the next file of the batch, or the return
NextFile(b) ==
    IF b_k[b] = Len(b_files[b])
    THEN b_pc' = [b_pc EXCEPT ![b] = "returned"] /\ b_k' = b_k
    ELSE b_pc' = [b_pc EXCEPT ![b] = "extract"]
             /\ b_k' = [b_k EXCEPT ![b] = b_k[b] + 1]

\* ingestion.py 76-89: the embeddings of the chunks arrive and the document
\* gets its identifier; a file of no chunk writes nothing
IngestEmbedded(b) ==
    /\ b_pc[b] = "embed"
    /\ LET chunks == b_chunks[b]
           doc_id == uuid4(uuids)
       IN  /\ b_embeddings' =
                  [b_embeddings EXCEPT ![b] = embed_texts(chunks, DefaultBatchSize)]
           /\ uuids' = uuids + 1
           /\ b_doc_id' = [b_doc_id EXCEPT ![b] = doc_id]
           /\ ingested' = Append(ingested,
                  [chunks |-> chunks, complete |-> chunks = <<>>,
                   document_id |-> doc_id])
           /\ b_i' = [b_i EXCEPT ![b] = 0]
           /\ IF chunks = <<>>
              THEN NextFile(b)
              ELSE b_pc' = [b_pc EXCEPT ![b] = "add"] /\ b_k' = b_k
    /\ UNCHANGED <<b_files, b_chunks, b_meta, b_exc, index, notIng>>

\* ingestion.py 80-86: the embedding fails
IngestEmbedFails(b) ==
    /\ b_pc[b] = "embed"
    /\ b_pc' = [b_pc EXCEPT ![b] = "raised"]
    /\ b_exc' = [b_exc EXCEPT ![b] =
           HTTPException(500,
               <<"Embedding generation failed for ">> \o b_files[b][b_k[b]].filename
                   \o <<": ", "error">>)]
    /\ UNCHANGED <<uuids, ingested, b_files, b_k, b_chunks, b_embeddings,
                   b_doc_id, b_i, b_meta, index, notIng>>

\* ingestion.py 89-99: one turn of the write loop: the record is added to the
\* index and its metadata appended to support_metadata
IngestAddVector(b) ==
    /\ b_pc[b] = "add"
    /\ LET i == b_i[b]
           metadata == ChunkMetadata(b_doc_id[b], i, b_files[b][b_k[b]].filename,
                                     b_chunks[b][i + 1])
       IN  /\ index' = AddVector(index, b_embeddings[b][i + 1], metadata)
           /\ b_meta' = [b_meta EXCEPT ![b] = Append(b_meta[b], metadata)]
           /\ b_i' = [b_i EXCEPT ![b] = i + 1]
           /\ IF i + 1 = Len(b_chunks[b])
              THEN /\ NextFile(b)
                   /\ ingested' =
                          [d \in DOMAIN ingested |->
                              IF ingested[d].document_id = b_doc_id[b]
                              THEN [ingested[d] EXCEPT !.complete = TRUE]
                              ELSE ingested[d]]
              ELSE UNCHANGED <<b_pc, b_k, ingested>>
    /\ UNCHANGED <<uuids, b_files, b_chunks, b_embeddings, b_doc_id, b_exc,
                   notIng>>

\* Variant: the metadata is appended to support_metadata before the write is
\* awaited, so a failed write is reported all the same
IngestAddFails_Reported(b) ==
    /\ b_pc[b] = "add"
    /\ b_pc' = [b_pc EXCEPT ![b] = "raised"]
    /\ b_exc' = [b_exc EXCEPT ![b] = RuntimeError(<<"index write failed">>)]
    /\ b_meta' = [b_meta EXCEPT ![b] =
           Append(b_meta[b],
                  ChunkMetadata(b_doc_id[b], b_i[b], b_files[b][b_k[b]].filename,
                                b_chunks[b][b_i[b] + 1]))]
    /\ UNCHANGED <<uuids, ingested, b_files, b_k, b_chunks, b_embeddings,
                   b_doc_id, b_i, index, notIng>>

\* ingestion.py 96: the write fails and the exception leaves the function
IngestAddFails(b) ==
    /\ b_pc[b] = "add"
    /\ b_pc' = [b_pc EXCEPT ![b] = "raised"]
    /\ b_exc' = [b_exc EXCEPT ![b] = RuntimeError(<<"index write failed">>)]
    /\ UNCHANGED <<uuids, ingested, b_files, b_k, b_chunks, b_embeddings,
                   b_doc_id, b_i, b_meta, index, notIng>>

-----------------------------------------------------------------------------
(* The knowledge-base build: POST /build-knowledge-base *)

\* The handlers of build requests
Builders == {"b1"}

\* The support documents of a build request: those above, a text file that
\* holds only whitespace (the splitter strips its chunks and drops the empty
\* ones, so it is cut into none), and a file of a kind that is not allowed
BuildUploads ==
    Uploads \cup
    { [empty |-> FALSE, filename |-> <<"blank", ".txt">>, pieces |-> <<>>,
       valid |-> TRUE],
      [empty |-> FALSE, filename |-> <<"logo", ".png">>, pieces |-> <<>>,
       valid |-> FALSE] }

\* The checkout files of a build request; pieces holds the text of the file
CheckoutFiles ==
    { [empty |-> FALSE, filename |-> <<"checkout", ".html">>,
       pieces |-> <<"<form>", "<button>">>, valid |-> TRUE],
      [empty |-> TRUE, filename |-> <<"checkout", ".html">>, pieces |-> <<>>,
       valid |-> TRUE],
      [empty |-> FALSE, filename |-> <<"checkout", ".txt">>,
       pieces |-> <<"text">>, valid |-> TRUE] }

NoUpload == [empty |-> TRUE, filename |-> <<>>, pieces |-> <<>>, valid |-> FALSE]

NoBuildResponse ==
    [message |-> "", num_chunks |-> 0, num_documents |-> 0, vector_store |-> ""]

\* app.py 109-125: validate_upload on every support document, then on the
\* checkout file
ValidateUploads(support_docs, checkout_html) ==
    LET Refused(file, allowed) == Ext(file.filename) \notin allowed
        Invalid(file, logical_name) ==
            [exc |-> HTTPException(400,
                         <<"Invalid file type for ", logical_name, ": ">>
                             \o file.filename),
             ok |-> FALSE]
        docs == SelectSeq(support_docs,
                          LAMBDA f : Refused(f, {".md", ".txt", ".json", ".pdf"}))
    IN  IF docs # <<>> THEN Invalid(Head(docs), "support_docs")
        ELSE IF Refused(checkout_html, {".html", ".htm"})
        THEN Invalid(checkout_html, "checkout_html")
        ELSE [exc |-> NoExc, ok |-> TRUE]

\* app.py 96-132: the request is checked and the ingestion of the support
\* documents begins
BuildStart(b, support_docs, checkout_html) ==
    /\ b_pc[b] = "idle"
    /\ b_checkout' = [b_checkout EXCEPT ![b] = checkout_html]
    /\ LET checked == ValidateUploads(support_docs, checkout_html)
       IN  IF support_docs = <<>>
           THEN /\ b_pc' = [b_pc EXCEPT ![b] = "raised"]
                /\ b_exc' = [b_exc EXCEPT ![b] = HTTPException(400,
                       <<"At least one support document is required.">>)]
                /\ b_files' = b_files
           ELSE IF ~checked.ok
           THEN /\ b_pc' = [b_pc EXCEPT ![b] = "raised"]
                /\ b_exc' = [b_exc EXCEPT ![b] = checked.exc]
                /\ b_files' = b_files
           ELSE /\ b_pc' = [b_pc EXCEPT ![b] = "extract"]
                /\ b_exc' = b_exc
                /\ b_files' = [b_files EXCEPT ![b] = support_docs]
    /\ UNCHANGED <<uuids, ingested, b_k, b_chunks, b_embeddings, b_doc_id, b_i,
                   b_meta, checkout, b_resp, index, genVars, embVars, restVars>>

\* ingestion.py 142-172: the statistics of the build
rebuild_vector_store(support_docs_metadata) ==
    [message |-> "Knowledge base rebuilt.",
     num_chunks |-> Len(support_docs_metadata),
     num_documents |-> Len(support_docs_metadata),
     vector_store |-> "chroma"]

\* app.py 170-175
BuildKnowledgeBaseResponse(stats) ==
    [message |-> "Knowledge base built successfully.",
     num_chunks |-> stats.num_chunks,
     num_documents |-> stats.num_documents,
     vector_store |-> stats.vector_store]

\* ingestion.py 119-121: the support documents are ingested; the stored
\* checkout.html is removed, and the opening of the new file awaited
BuildRemoveCheckout(b) ==
    /\ b_pc[b] = "returned"
    /\ checkout' = None
    /\ b_pc' = [b_pc EXCEPT ![b] = "opening"]
    /\ UNCHANGED <<uuids, ingested, b_files, b_k, b_chunks, b_embeddings,
                   b_doc_id, b_i, b_meta, b_exc, b_checkout, b_resp, index,
                   genVars, embVars, restVars>>

\* ingestion.py 123-124: the file is opened for writing, which leaves an empty
\* file at its place, and the read of the upload awaited
BuildOpenCheckout(b) ==
    /\ b_pc[b] = "opening"
    /\ checkout' = <<>>
    /\ b_pc' = [b_pc EXCEPT ![b] = "reading"]
    /\ UNCHANGED <<uuids, ingested, b_files, b_k, b_chunks, b_embeddings,
                   b_doc_id, b_i, b_meta, b_exc, b_checkout, b_resp, index,
                   genVars, embVars, restVars>>

\* ingestion.py 124-129 and 134-140: the upload is read; an empty upload
\* raises inside the try block and leaves as a 500, with the empty file left
\* behind; any other is handed to the write, which is awaited
BuildReadUpload(b) ==
    /\ b_pc[b] = "reading"
    /\ IF b_checkout[b].empty
       THEN /\ b_pc' = [b_pc EXCEPT ![b] = "raised"]
            /\ b_exc' = [b_exc EXCEPT ![b] = HTTPException(500,
                   <<"Failed to save checkout.html: ">>
                       \o StrExc(HTTPException(400,
                              <<"Uploaded checkout.html is empty">>)))]
       ELSE /\ b_pc' = [b_pc EXCEPT ![b] = "writing"]
            /\ b_exc' = b_exc
    /\ UNCHANGED <<uuids, ingested, b_files, b_k, b_chunks, b_embeddings,
                   b_doc_id, b_i, b_meta, b_checkout, b_resp, checkout, index,
                   genVars, embVars, restVars>>

\* ingestion.py 129-130: the write runs in a worker thread while the event
\* loop serves other requests, and the file grows piece by piece until the
\* file is closed
BuildWriteCheckout(b) ==
    /\ b_pc[b] = "writing"
    /\ Len(checkout) < Len(b_checkout[b].pieces)
    /\ checkout' = Append(checkout, b_checkout[b].pieces[Len(checkout) + 1])
    /\ b_pc' = [b_pc EXCEPT ![b] =
           IF Len(checkout') = Len(b_checkout[b].pieces) THEN "saved" ELSE "writing"]
    /\ UNCHANGED <<uuids, ingested, b_files, b_k, b_chunks, b_embeddings,
                   b_doc_id, b_i, b_meta, b_exc, b_checkout, b_resp, index,
                   genVars, embVars, restVars>>

\* ingestion.py 131-134 and app.py 143-175: the path of the saved file is
\* returned, the statistics are computed and the response built
BuildFinish(b) ==
    /\ b_pc[b] = "saved"
    /\ b_pc' = [b_pc EXCEPT ![b] = "built"]
    /\ b_resp' = [b_resp EXCEPT ![b] =
           BuildKnowledgeBaseResponse(rebuild_vector_store(b_meta[b]))]
    /\ UNCHANGED <<uuids, ingested, b_files, b_k, b_chunks, b_embeddings,
                   b_doc_id, b_i, b_meta, b_exc, b_checkout, checkout, index,
                   genVars, embVars, restVars>>

-----------------------------------------------------------------------------
(* The text splitter: RecursiveCharacterTextSplitter(chunk_size=1000,
   chunk_overlap=200).split_text, followed step by step for a text in which
   none of its separators (blank line, line break, space) occurs. Such a text
   is split into its characters, and _merge_splits joins them into chunks. *)

ChunkSize == 1000

ChunkOverlap == 200

\* The lengths of the texts split
TextLengths == {1, 200, 1000, 1001, 1800, 1801, 2500, 2601}

\* The handler that ingests the text
Splitters == {"b1"}

\* A text file of n characters without separator
PlainText(n) ==
    [empty |-> FALSE, filename |-> <<"plain", ".txt">>,
     pieces |-> <<<<"chars", "1", ToString(n)>>>>, valid |-> TRUE]

\* len(d): a split is one character; the separator joined between splits is
\* the empty string
SplitLen(d) == 1

SeparatorLen == 0

\* len(current_doc)
CurLen(cur) == cur[2] - cur[1] + 1

\* _join_docs: the splits of current_doc joined and stripped; None when the
\* result is empty
JoinDocs(cur) == IF CurLen(cur) = 0 THEN None ELSE cur

\* The chunk as the text handed on: the characters from the first to the last
ChunkText(doc) == <<"chars", ToString(doc[1]), ToString(doc[2])>>

\* total + _len + (separator_len if len(current_doc) > 0 else 0) > chunk_size
Overflows(total, len, cur) ==
    total + len + (IF CurLen(cur) > 0 THEN SeparatorLen ELSE 0) > ChunkSize

\* Variant: current_doc is emptied after a chunk, no overlap kept
KeepPopping_ToEmpty(total, len, cur) == total > 0

\* The condition of the while loop that drops splits from the front of
\* current_doc after a chunk was made
KeepPopping(total, len, cur) ==
    \/ total > ChunkOverlap
    \/ Overflows(total, len, cur) /\ total > 0

SplitIdle ==
    /\ s_pc = "idle"
    /\ s_n = 0
    /\ s_d = 1
    /\ s_cur = <<1, 0>>
    /\ s_total = 0
    /\ s_docs = <<>>

\* ingestion.py 33-72: a text file of n characters is saved and read, and the
\* splitter starts on its characters
SplitStart(b, n) ==
    /\ b_pc[b] = "idle"
    /\ s_pc = "idle"
    /\ b_files' = [b_files EXCEPT ![b] = <<PlainText(n)>>]
    /\ b_pc' = [b_pc EXCEPT ![b] = "split"]
    /\ s_pc' = "for"
    /\ s_n' = n
    /\ UNCHANGED <<s_d, s_cur, s_total, s_docs, uuids, ingested, b_k, b_chunks,
                   b_embeddings, b_doc_id, b_i, b_meta, b_exc, index, genVars,
                   embVars, buildVars, laterVars>>

\* One turn of `for d in splits`: when the split does not fit, current_doc is
\* made a chunk and the while loop entered; else the split is appended
SplitFor ==
    /\ s_pc = "for"
    /\ s_d <= s_n
    /\ IF Overflows(s_total, SplitLen(s_d), s_cur)
       THEN /\ s_docs' = IF CurLen(s_cur) > 0 /\ JoinDocs(s_cur) # None
                         THEN Append(s_docs, JoinDocs(s_cur))
                         ELSE s_docs
            /\ s_pc' = "while"
            /\ UNCHANGED <<s_d, s_cur, s_total>>
       ELSE /\ s_cur' = <<s_cur[1], s_d>>
            /\ s_total' = s_total + SplitLen(s_d)
            /\ s_d' = s_d + 1
            /\ UNCHANGED <<s_docs, s_pc>>
    /\ UNCHANGED <<s_n, index, genVars, ingVars, embVars, buildVars, laterVars>>

\* One test of the while loop: the first split of current_doc is dropped, or
\* the loop ends and the split of this turn is appended
SplitWhile ==
    /\ s_pc = "while"
    /\ IF CurLen(s_cur) > 0 /\ KeepPopping(s_total, SplitLen(s_d), s_cur)
       THEN /\ s_total' = s_total - (SplitLen(s_cur[1])
                               + (IF CurLen(s_cur) > 1 THEN SeparatorLen ELSE 0))
            /\ s_cur' = <<s_cur[1] + 1, s_cur[2]>>
            /\ UNCHANGED <<s_d, s_pc>>
       ELSE /\ s_cur' = <<s_cur[1], s_d>>
            /\ s_total' = s_total + SplitLen(s_d)
            /\ s_d' = s_d + 1
            /\ s_pc' = "for"
    /\ UNCHANGED <<s_n, s_docs, index, genVars, ingVars, embVars, buildVars,
                   laterVars>>

\* After the loop what is left of current_doc is the last chunk; the chunks go
\* to the embedding (ingestion.py 72-77)
SplitReturn(b) ==
    /\ s_pc = "for"
    /\ s_d > s_n
    /\ b_pc[b] = "split"
    /\ LET docs == IF JoinDocs(s_cur) # None THEN Append(s_docs, JoinDocs(s_cur))
                   ELSE s_docs
       IN  /\ s_docs' = docs
           /\ b_chunks' = [b_chunks EXCEPT ![b] =
                              [k \in 1..Len(docs) |-> ChunkText(docs[k])]]
    /\ s_pc' = "done"
    /\ b_pc' = [b_pc EXCEPT ![b] = "embed"]
    /\ UNCHANGED <<s_n, s_d, s_cur, s_total, uuids, ingested, b_files, b_k,
                   b_embeddings, b_doc_id, b_i, b_meta, b_exc, index, genVars,
                   embVars, buildVars, laterVars>>

-----------------------------------------------------------------------------
(* Script generation: POST /generate-selenium-script *)

FencePython == <<"BT", "BT", "BT", "p", "y", "t", "h", "o", "n">>

\* Variant: what is left between the fences is returned untrimmed
CleanScriptText_Untrimmed(llm_response_text) ==
    LET c0 == Strip(llm_response_text)
        c1 == IF StartsWith(c0, FencePython) THEN DropFirst(c0, 9)
              ELSE IF StartsWith(c0, FenceEnd) THEN DropFirst(c0, 3)
              ELSE c0
    IN  IF EndsWith(c1, FenceEnd) THEN DropLast(c1, 3) ELSE c1

\* rag_agent.py 99-108: strip, drop a leading ```python or else a leading ```,
\* drop a trailing ```, strip
CleanScriptText(llm_response_text) ==
    LET c0 == Strip(llm_response_text)
        c1 == IF StartsWith(c0, FencePython) THEN DropFirst(c0, 9)
              ELSE IF StartsWith(c0, FenceEnd) THEN DropFirst(c0, 3)
              ELSE c0
        c2 == IF EndsWith(c1, FenceEnd) THEN DropLast(c1, 3) ELSE c1
    IN  Strip(c2)

\* Variant: the validator hands on the value as it came
SeleniumTestCase_non_empty_strings_Unstripped(v) ==
    IF v = <<>> \/ Strip(v) = <<>>
    THEN [ok |-> FALSE, v |-> <<>>]
    ELSE [ok |-> TRUE, v |-> v]

\* schemas.py 39-43: the validator of SeleniumTestCase
SeleniumTestCase_non_empty_strings(v) ==
    IF v = <<>> \/ Strip(v) = <<>>
    THEN [ok |-> FALSE, v |-> <<>>]
    ELSE [ok |-> TRUE, v |-> Strip(v)]

NoTestCase ==
    [expected_result |-> <<>>, feature |-> <<>>, test_id |-> <<>>,
     test_scenario |-> <<>>]

\* schemas.py 33-46: SeleniumTestCase(**values); a field that is absent or
\* null is refused, then the validator runs on each field
SeleniumTestCase(test_id, feature, test_scenario, expected_result) ==
    LET given == <<test_id, feature, test_scenario, expected_result>>
        checked == [i \in 1..4 |-> SeleniumTestCase_non_empty_strings(given[i])]
    IN  IF \E i \in 1..4 : given[i] = None \/ ~checked[i].ok
        THEN [ok |-> FALSE, tc |-> NoTestCase]
        ELSE [ok |-> TRUE,
              tc |-> [expected_result |-> checked[4].v, feature |-> checked[2].v,
                      test_id |-> checked[1].v, test_scenario |-> checked[3].v]]

\* The response FastAPI sends for an exception of the script request
ScriptError(exc) ==
    [detail |-> exc.msg, selenium_script |-> <<>>, status |-> exc.status,
     test_id |-> <<>>]

\* selenium_script_gen.py 87-90, sent with status 200
SeleniumScriptGenerationResponse(test_id, selenium_script) ==
    [detail |-> <<>>, selenium_script |-> selenium_script, status |-> 200,
     test_id |-> test_id]

NoScriptResponse ==
    [detail |-> <<>>, selenium_script |-> <<>>, status |-> 0, test_id |-> <<>>]

\* app.py 242-245 and selenium_script_gen.py 26-37: the two tests of the
\* validated test case
MissingFields(tc) ==
    \/ tc.test_id = <<>>
    \/ tc.feature = <<>>
    \/ tc.test_scenario = <<>>
    \/ tc.expected_result = <<>>

MissingFieldsException(tc) ==
    IF tc.test_id = <<>>
    THEN HTTPException(400, <<"test_case with a valid test_id is required.">>)
    ELSE HTTPException(400,
             <<"Test case must contain valid test_id, feature, test_scenario and expected_result fields.">>)

\* Variant: a missing checkout.html is read as an empty document
ReadCheckout_MissingIsEmpty(stored, decodes) ==
    IF stored = None THEN [exc |-> NoExc, ok |-> TRUE, val |-> <<>>]
    ELSE IF ~decodes
    THEN [exc |-> HTTPException(500,
                      <<"Internal server error reading checkout.html.">>),
          ok |-> FALSE, val |-> <<>>]
    ELSE [exc |-> NoExc, ok |-> TRUE, val |-> stored]

\* selenium_script_gen.py 42-61: checkout.html is read whole
ReadCheckout(stored, decodes) ==
    IF stored = None
    THEN [exc |-> HTTPException(400,
                      <<"checkout.html file not found. Rebuild knowledge base before generating scripts.">>),
          ok |-> FALSE, val |-> <<>>]
    ELSE IF ~decodes
    THEN [exc |-> HTTPException(500,
                      <<"Internal server error reading checkout.html.">>),
          ok |-> FALSE, val |-> <<>>]
    ELSE [exc |-> NoExc, ok |-> TRUE, val |-> stored]

\* app.py 263-270: an exception of the handler that is no HTTPException
ScriptExcept(exc) ==
    HTTPException(500, <<"Failed to generate Selenium script. Exception: ">>
                           \o StrExc(exc))

ScriptFinish(out) ==
    /\ sc_pc' = "done"
    /\ sc_out' = out

ScriptIdle ==
    /\ sc_pc = "idle"
    /\ sc_req = ""
    /\ sc_tc = NoTestCase
    /\ sc_context = None
    /\ sc_called = FALSE
    /\ sc_raw = <<>>
    /\ sc_warned = FALSE
    /\ sc_out = NoScriptResponse

\* app.py 235-250 and selenium_script_gen.py 23-67: the payload is validated,
\* the test case tested, the agent constructed, checkout.html read and the
\* generative model called with the document as context
ScriptRequest(payload, decodes) ==
    /\ sc_pc = "idle"
    /\ sc_req' = payload
    /\ LET v == SeleniumTestCase(EntryGet(payload, "test_id"),
                                 EntryGet(payload, "feature"),
                                 EntryGet(payload, "test_scenario"),
                                 EntryGet(payload, "expected_result"))
           html == ReadCheckout(checkout, decodes)
       IN  /\ sc_tc' = v.tc
           /\ IF ~v.ok
              THEN /\ ScriptFinish(ScriptError(HTTPException(422, <<"validation error">>)))
                   /\ UNCHANGED <<sc_context, sc_called>>
              ELSE IF MissingFields(v.tc)
              THEN /\ ScriptFinish(ScriptError(MissingFieldsException(v.tc)))
                   /\ UNCHANGED <<sc_context, sc_called>>
              ELSE IF ~api_key
              THEN /\ ScriptFinish(ScriptError(ScriptExcept(
                          ValueError(<<"GOOGLE_API_KEY not found in environment variables">>))))
                   /\ UNCHANGED <<sc_context, sc_called>>
              ELSE IF ~html.ok
              THEN /\ ScriptFinish(ScriptError(html.exc))
                   /\ UNCHANGED <<sc_context, sc_called>>
              ELSE /\ sc_pc' = "generating"
                   /\ sc_context' = html.val
                   /\ sc_called' = TRUE
                   /\ sc_out' = sc_out
    /\ UNCHANGED <<notScript, sc_raw, sc_warned>>

\* selenium_script_gen.py 72: the test of the warning
LooksLikeJson(selenium_script) ==
    \/ StartsWith(Strip(selenium_script), <<"{">>)
    \/ StartsWith(Strip(selenium_script), <<"[">>)

\* rag_agent.py 97-108 and selenium_script_gen.py 65-90: the model answers,
\* the fences are taken off, a script that looks like JSON is warned of and
\* the response is built
ScriptGenerated(llm_response_text) ==
    /\ sc_pc = "generating"
    /\ sc_raw' = llm_response_text
    /\ LET selenium_script == CleanScriptText(llm_response_text)
       IN  /\ sc_warned' = LooksLikeJson(selenium_script)
           /\ ScriptFinish(SeleniumScriptGenerationResponse(
                  sc_tc.test_id, selenium_script))
    /\ UNCHANGED <<notScript, sc_req, sc_tc, sc_context, sc_called>>

\* rag_agent.py 52-56 under selenium_script_gen.py 76-82: the call fails
ScriptCallFails ==
    /\ sc_pc = "generating"
    /\ ScriptFinish(ScriptError(HTTPException(500,
           <<"Failed to generate Selenium script from the test case: ">>
               \o LlmCallFailed.exc.msg)))
    /\ UNCHANGED <<notScript, sc_req, sc_tc, sc_context, sc_called, sc_raw,
                   sc_warned>>

\* The answers of the generative model to a script prompt
ScriptBody == <<"import", "\n", "driver", ".", "get">>

ScriptResponses ==
    { ScriptBody,
      <<" ">> \o ScriptBody \o <<"\n">>,
      Fenced(FencePython, ScriptBody),
      Fenced(FencePlain, ScriptBody),
      <<"\n">> \o Fenced(FencePython, ScriptBody) \o <<" ">>,
      FencePython \o <<"\n">> \o ScriptBody,
      ScriptBody \o <<"\n">> \o FenceEnd,
      <<"BT", "BT", "BT", "p", "y", "\n">> \o ScriptBody \o <<"\n">> \o FenceEnd,
      Fenced(FencePython, ScriptBody) \o <<"\n", "done">>,
      <<"{", "}">>,
      <<" ", "[", "]">>,
      Fenced(FencePlain, <<"{", "}">>),
      <<>> }

\* The states of the stored checkout.html: none, the empty file a refused
\* upload leaves behind, a document
StoredCheckouts == {None, <<>>, <<"<form>", "<button>">>}

-----------------------------------------------------------------------------
(* SeleniumExecutor.run_script *)

\* A byte that is no text in the encoding of the pipes
BadByte == "0xff"

\* The scripts run: what they write, whether they end, the status they end with
Scripts ==
    [hangs : BOOLEAN, returncode : {0, 3, -9},
     stderr : {<<>>, <<"Traceback">>},
     stdout : {<<>>, <<"OK">>, <<BadByte>>}]

NoScript == [hangs |-> FALSE, returncode |-> 0, stderr |-> <<>>, stdout |-> <<>>]

NoResult == [error |-> None, stderr |-> <<>>, stdout |-> <<>>, success |-> FALSE]

\* text=True: the captured bytes are decoded, which raises on a byte that is
\* no text
Decodes(stream) == \A k \in 1..Len(stream) : stream[k] # BadByte

\* selenium_executor.py 41-47
Completed(returncode, stdout, stderr) ==
    [error |-> None, stderr |-> stderr, stdout |-> stdout,
     success |-> returncode = 0]

\* Variant: the output captured until the timeout is returned
TimedOut_Partial(stdout, stderr) ==
    [error |-> <<"Execution timed out">>, stderr |-> stderr, stdout |-> stdout,
     success |-> FALSE]

\* selenium_executor.py 48-55: the result on TimeoutExpired, whatever output
\* the exception carries
TimedOut(stdout, stderr) ==
    [error |-> <<"Execution timed out">>, stderr |-> <<>>, stdout |-> <<>>,
     success |-> FALSE]

\* selenium_executor.py 56-63
ExecutionError(msg) ==
    [error |-> msg, stderr |-> <<>>, stdout |-> <<>>, success |-> FALSE]

ExecIdle ==
    /\ x_pc = "idle"
    /\ x_script = NoScript
    /\ x_proc = "none"
    /\ x_written = FALSE
    /\ x_tmp = FALSE
    /\ x_ret = NoResult

\* selenium_executor.py 64-68: the temporary file is removed; a failure to
\* remove it is logged only
ExecFinally(result, removed) ==
    /\ x_ret' = result
    /\ x_tmp' = ~removed
    /\ x_pc' = "done"

\* selenium_executor.py 29-40: the script is written to a temporary file and
\* its process started
ExecStart(script) ==
    /\ x_pc = "idle"
    /\ x_script' = script
    /\ x_tmp' = TRUE
    /\ x_proc' = "running"
    /\ x_pc' = "running"
    /\ UNCHANGED <<x_written, x_ret, notExec>>

\* selenium_executor.py 29-31: the temporary file is created, and writing the
\* script text to it fails; the with block is outside the try, so the exception
\* leaves run_script and the file, created with delete=False, stays
ExecWriteFails(script) ==
    /\ x_pc = "idle"
    /\ x_script' = script
    /\ x_tmp' = TRUE
    /\ x_pc' = "raised"
    /\ UNCHANGED <<x_proc, x_written, x_ret, notExec>>

\* selenium_executor.py 29-40 and 56-68: the process cannot be started
ExecStartFails(script, removed) ==
    /\ x_pc = "idle"
    /\ x_script' = script
    /\ ExecFinally(ExecutionError(<<"No such file or directory: ", "python3">>),
                   removed)
    /\ UNCHANGED <<x_proc, x_written, notExec>>

\* The process writes its output to the pipes
ExecWrites ==
    /\ x_pc = "running"
    /\ x_proc = "running"
    /\ ~x_written
    /\ x_written' = TRUE
    /\ UNCHANGED <<x_pc, x_script, x_proc, x_tmp, x_ret, notExec>>

\* The process ends by itself, its output written
ExecExits ==
    /\ x_pc = "running"
    /\ x_proc = "running"
    /\ x_written
    /\ ~x_script.hangs
    /\ x_proc' = "exited"
    /\ UNCHANGED <<x_pc, x_script, x_written, x_tmp, x_ret, notExec>>

\* selenium_executor.py 35-47 and 56-68: subprocess.run returns for the ended
\* process, or raises when its output cannot be decoded
ExecReturn(removed) ==
    /\ x_pc = "running"
    /\ x_proc = "exited"
    /\ IF Decodes(x_script.stdout) /\ Decodes(x_script.stderr)
       THEN ExecFinally(Completed(x_script.returncode, x_script.stdout,
                                  x_script.stderr), removed)
       ELSE ExecFinally(ExecutionError(<<"codec can't decode byte ", BadByte>>),
                        removed)
    /\ UNCHANGED <<x_script, x_proc, x_written, notExec>>

\* selenium_executor.py 35-40 and 48-55: the timeout passes with the process
\* running; subprocess.run kills it, waits for it and raises TimeoutExpired
ExecTimeout(removed) ==
    /\ x_pc = "running"
    /\ x_proc = "running"
    /\ x_proc' = "killed"
    /\ ExecFinally(TimedOut(IF x_written THEN x_script.stdout ELSE <<>>,
                            IF x_written THEN x_script.stderr ELSE <<>>),
                   removed)
    /\ UNCHANGED <<x_script, x_written, notExec>>

-----------------------------------------------------------------------------
(* get_embedding_manager: the engine shared by the requests *)

\* The requests that ask for the engine: two ingestions and a generation
Callers == {"ingest1", "ingest2", "generate"}

\* most calls of get_embedding_manager by one request
MaxCalls == 2

\* Variant: every call constructs an engine
get_embedding_manager_Fresh(instance, built) ==
    [built |-> built + 1, instance |-> built + 1]

\* embedding_manager.py 64-67: the engine is constructed when none is held;
\* the test and the assignment run with no await in between
get_embedding_manager(instance, built) ==
    IF instance = 0
    THEN [built |-> built + 1, instance |-> built + 1]
    ELSE [built |-> built, instance |-> instance]

MgrIdle ==
    /\ m_instance = 0
    /\ m_built = 0
    /\ m_pc = [c \in Callers |-> "idle"]
    /\ m_used = [c \in Callers |-> 0]
    /\ m_calls = [c \in Callers |-> 0]

\* embedding_manager.py 74-75 and rag_agent.py 26, 60-61: a request asks for
\* the engine and awaits embed_texts on it
MgrGet(c) ==
    /\ m_pc[c] = "idle"
    /\ m_calls[c] < MaxCalls
    /\ LET got == get_embedding_manager(m_instance, m_built)
       IN  /\ m_instance' = got.instance
           /\ m_built' = got.built
           /\ m_used' = [m_used EXCEPT ![c] = got.instance]
    /\ m_calls' = [m_calls EXCEPT ![c] = m_calls[c] + 1]
    /\ m_pc' = [m_pc EXCEPT ![c] = "embedding"]
    /\ UNCHANGED notMgr

\* embedding_manager.py 14-15 and 65-66: no engine is held and loading the
\* model raises; the assignment is not reached and the request fails
MgrLoadFails(c) ==
    /\ m_pc[c] = "idle"
    /\ m_calls[c] < MaxCalls
    /\ m_instance = 0
    /\ m_calls' = [m_calls EXCEPT ![c] = m_calls[c] + 1]
    /\ m_used' = [m_used EXCEPT ![c] = 0]
    /\ UNCHANGED <<m_instance, m_built, m_pc, notMgr>>

\* embedding_manager.py 46-55: embed_texts ends, with the vectors or an error
MgrEmbedded(c) ==
    /\ m_pc[c] = "embedding"
    /\ m_pc' = [m_pc EXCEPT ![c] = "idle"]
    /\ UNCHANGED <<m_instance, m_built, m_used, m_calls, notMgr>>

-----------------------------------------------------------------------------
(* Specifications *)

vars == <<index, genVars, ingVars, embVars, buildVars, restVars>>

GenIdle ==
    /\ g_pc = "idle"
    /\ g_req = [max_test_cases |-> 0, query |-> <<>>]
    /\ g_query = <<>>
    /\ g_qemb = NoVec
    /\ g_chunks = <<>>
    /\ g_searched = FALSE
    /\ g_top_k = 0
    /\ g_raw = <<>>
    /\ g_called = FALSE
    /\ g_ret = NoRet
    /\ g_out = NoResponse
    /\ g_log = <<>>

IngestIdle ==
    /\ uuids = 0
    /\ ingested = <<>>
    /\ b_pc = [b \in Batches |-> "idle"]
    /\ b_files = [b \in Batches |-> <<>>]
    /\ b_k = [b \in Batches |-> 1]
    /\ b_chunks = [b \in Batches |-> <<>>]
    /\ b_embeddings = [b \in Batches |-> <<>>]
    /\ b_doc_id = [b \in Batches |-> 0]
    /\ b_i = [b \in Batches |-> 0]
    /\ b_meta = [b \in Batches |-> <<>>]
    /\ b_exc = [b \in Batches |-> NoExc]

BuildIdle ==
    /\ b_checkout = [b \in Batches |-> NoUpload]
    /\ b_resp = [b \in Batches |-> NoBuildResponse]

EmbedIdle ==
    /\ e_pc = "idle"
    /\ e_texts = <<>>
    /\ e_batch_size = DefaultBatchSize
    /\ e_i = 0
    /\ e_embeddings = <<>>
    /\ e_dispatched = <<>>
    /\ e_out = NoEmbeddings

\* No request is under way
Idle ==
    /\ GenIdle
    /\ IngestIdle
    /\ EmbedIdle
    /\ BuildIdle
    /\ SplitIdle
    /\ ScriptIdle
    /\ ExecIdle
    /\ MgrIdle

\* A test-case request against an index an earlier run left behind
InitGen ==
    /\ index \in {SubSeq(SampleIndex, 1, n) : n \in 0..MaxRecords}
    /\ api_key \in BOOLEAN
    /\ checkout = None
    /\ Idle

NextGen ==
    \/ \E q \in Queries, m \in Counts :
           GenRequest([max_test_cases |-> m, query |-> q])
    \/ GenEmbedded
    \/ GenEmbedFails
    \/ GenSearched
    \/ GenSearchFails
    \/ \E text \in Responses : GenGenerated(text)
    \/ GenCallFails

SpecGen == InitGen /\ [][NextGen]_vars

\* Every requested count the schema allows, and the two next to its range
AllCounts == (MinTestCases - 1)..(MaxTestCases + 1)

\* A test-case request of any count
NextCounts ==
    \/ \E m \in AllCounts :
           GenRequest([max_test_cases |-> m, query |-> <<"a", "b", "c">>])
    \/ GenEmbedded
    \/ GenEmbedFails
    \/ GenSearched
    \/ GenSearchFails
    \/ \E text \in Responses : GenGenerated(text)
    \/ GenCallFails

SpecCounts == InitGen /\ [][NextCounts]_vars

\* Ingestion batches, handled at the same time, on an index that starts empty
InitIngest ==
    /\ index = <<>>
    /\ api_key = TRUE
    /\ checkout = None
    /\ Idle

NextIngest ==
    \/ \E b \in Batches, files \in SeqsUpTo(Uploads, MaxDocs) : IngestStart(b, files)
    \/ \E b \in Batches : IngestExtract(b)
    \/ \E b \in Batches : IngestEmbedded(b)
    \/ \E b \in Batches : IngestEmbedFails(b)
    \/ \E b \in Batches : IngestAddVector(b)
    \/ \E b \in Batches : IngestAddFails(b)

SpecIngest == InitIngest /\ [][NextIngest]_vars

\* A document of more chunks than one embedding batch
LongUpload ==
    [empty |-> FALSE, filename |-> <<"manual", ".txt">>, pieces |-> LongTexts,
     valid |-> TRUE]

\* The short files ingested while the long document is
ShortFiles ==
    { <<u>> : u \in Uploads } \cup
    { <<u1, u2>> : u1 \in {u \in Uploads : u.pieces # <<>>},
                   u2 \in {u \in Uploads : u.pieces # <<>>} }

\* One batch ingests the long document while the other ingests short files
NextLong ==
    \/ IngestStart("b1", <<LongUpload>>)
    \/ \E files \in ShortFiles : IngestStart("b2", files)
    \/ \E b \in Batches : IngestExtract(b)
    \/ \E b \in Batches : IngestEmbedded(b)
    \/ \E b \in Batches : IngestEmbedFails(b)
    \/ \E b \in Batches : IngestAddVector(b)
    \/ \E b \in Batches : IngestAddFails(b)

SpecLong == InitIngest /\ [][NextLong]_vars

\* One build request, from its check to its response
InitBuild ==
    /\ index = <<>>
    /\ api_key = TRUE
    /\ checkout = None
    /\ Idle

NextBuild ==
    \/ \E b \in Builders, support_docs \in SeqsUpTo(BuildUploads, MaxUploads),
          checkout_html \in CheckoutFiles :
           BuildStart(b, support_docs, checkout_html)
    \/ \E b \in Builders : IngestExtract(b)
    \/ \E b \in Builders : IngestEmbedded(b)
    \/ \E b \in Builders : IngestEmbedFails(b)
    \/ \E b \in Builders : IngestAddVector(b)
    \/ \E b \in Builders : IngestAddFails(b)
    \/ \E b \in Builders : BuildRemoveCheckout(b)
    \/ \E b \in Builders : BuildOpenCheckout(b)
    \/ \E b \in Builders : BuildReadUpload(b)
    \/ \E b \in Builders : BuildWriteCheckout(b)
    \/ \E b \in Builders : BuildFinish(b)

SpecBuild == InitBuild /\ [][NextBuild]_vars

\* The ingestion of one text, its splitting step by step
InitSplit ==
    /\ index = <<>>
    /\ api_key = TRUE
    /\ checkout = None
    /\ Idle

NextSplit ==
    \/ \E b \in Splitters, n \in TextLengths : SplitStart(b, n)
    \/ SplitFor
    \/ SplitWhile
    \/ \E b \in Splitters : SplitReturn(b)
    \/ \E b \in Splitters : IngestEmbedded(b)
    \/ \E b \in Splitters : IngestEmbedFails(b)
    \/ \E b \in Splitters : IngestAddVector(b)
    \/ \E b \in Splitters : IngestAddFails(b)

SpecSplit == InitSplit /\ [][NextSplit]_vars

\* One script-generation request against what earlier builds left behind
InitScript ==
    /\ index \in {SubSeq(SampleIndex, 1, n) : n \in 0..MaxRecords}
    /\ api_key \in BOOLEAN
    /\ checkout \in StoredCheckouts
    /\ Idle

NextScript ==
    \/ \E payload \in ObjectToks, decodes \in BOOLEAN : ScriptRequest(payload, decodes)
    \/ \E t \in ScriptResponses : ScriptGenerated(t)
    \/ ScriptCallFails

SpecScript == InitScript /\ [][NextScript]_vars

\* One call of run_script
InitExec ==
    /\ index = <<>>
    /\ api_key = TRUE
    /\ checkout = None
    /\ Idle

NextExec ==
    \/ \E script \in Scripts : ExecStart(script)
    \/ \E script \in Scripts : ExecWriteFails(script)
    \/ \E script \in Scripts, removed \in BOOLEAN : ExecStartFails(script, removed)
    \/ ExecWrites
    \/ ExecExits
    \/ \E removed \in BOOLEAN : ExecReturn(removed)
    \/ \E removed \in BOOLEAN : ExecTimeout(removed)

SpecExec == InitExec /\ [][NextExec]_vars

\* A test-case request and a script request served at the same time
ServeResponses == OtherBodies \cup {ListText(<<"e_ok", "e_pad">>)}

InitServe ==
    /\ index \in {SubSeq(SampleIndex, 1, n) : n \in 0..MaxRecords}
    /\ api_key \in BOOLEAN
    /\ checkout \in StoredCheckouts
    /\ Idle

NextServe ==
    \/ \E q \in Queries, m \in Counts :
           GenRequest([max_test_cases |-> m, query |-> q])
    \/ GenEmbedded
    \/ GenEmbedFails
    \/ GenSearched
    \/ GenSearchFails
    \/ \E text \in ServeResponses : GenGenerated(text)
    \/ GenCallFails
    \/ \E payload \in ObjectToks, decodes \in BOOLEAN : ScriptRequest(payload, decodes)
    \/ \E t \in ScriptResponses : ScriptGenerated(t)
    \/ ScriptCallFails

SpecServe == InitServe /\ [][NextServe]_vars

\* The checkout.html an earlier build stored
OldCheckout == <<"<old>", "<cart>">>

\* A build and a script-generation request served at the same time, with or
\* without a checkout.html of an earlier build
InitStore ==
    /\ index = <<>>
    /\ api_key = TRUE
    /\ checkout \in {None, OldCheckout}
    /\ Idle

NextStore ==
    \/ \E b \in Builders, u \in Uploads, checkout_html \in CheckoutFiles :
           BuildStart(b, <<u>>, checkout_html)
    \/ \E b \in Builders : IngestExtract(b)
    \/ \E b \in Builders : IngestEmbedded(b)
    \/ \E b \in Builders : IngestEmbedFails(b)
    \/ \E b \in Builders : IngestAddVector(b)
    \/ \E b \in Builders : IngestAddFails(b)
    \/ \E b \in Builders : BuildRemoveCheckout(b)
    \/ \E b \in Builders : BuildOpenCheckout(b)
    \/ \E b \in Builders : BuildReadUpload(b)
    \/ \E b \in Builders : BuildWriteCheckout(b)
    \/ \E b \in Builders : BuildFinish(b)
    \/ \E payload \in {"e_ok", "e_pad"}, decodes \in BOOLEAN :
           ScriptRequest(payload, decodes)
    \/ ScriptGenerated(ScriptBody)
    \/ ScriptCallFails

SpecStore == InitStore /\ [][NextStore]_vars

\* Requests that ask for the engine at the same time
InitMgr ==
    /\ index = <<>>
    /\ api_key = TRUE
    /\ checkout = None
    /\ Idle

NextMgr ==
    \/ \E c \in Callers : MgrGet(c)
    \/ \E c \in Callers : MgrLoadFails(c)
    \/ \E c \in Callers : MgrEmbedded(c)

SpecMgr == InitMgr /\ [][NextMgr]_vars

\* One call of embed_texts
InitEmbed ==
    /\ index = <<>>
    /\ api_key = TRUE
    /\ checkout = None
    /\ Idle

NextEmbed ==
    \/ \E texts \in EmbedInputs, batch_size \in BatchSizes :
           EmbedCall(texts, batch_size)
    \/ EmbedBatch
    \/ EmbedBatchFails
    \/ EmbedReturn

SpecEmbed == InitEmbed /\ [][NextEmbed]_vars

-----------------------------------------------------------------------------
(* The Test Case invariants, as the specification states them *)

\* A string with at least one character that is not whitespace
NonBlank(s) == s # None /\ \E k \in 1..Len(s) : s[k] \notin Whitespace

\* An entry that is an object with the four required fields present and
\* non-empty after trimming
MeetsInvariants(entry) ==
    /\ entry \in ObjectToks
    /\ \A f \in Fields : f \in DOMAIN Objects[entry] /\ NonBlank(Objects[entry][f])

\* The test case of a valid entry
CaseOf(entry) ==
    [f \in Fields \cup {"source_document"} |->
        IF f \in Fields THEN Strip(Objects[entry][f])
        ELSE IF f \in DOMAIN Objects[entry] THEN Objects[entry][f] ELSE None]

\* The request is over and generate_test_cases returned a list
ListReturned == g_pc = "done" /\ g_called /\ g_ret.ok /\ IsList(g_ret.val)

\* C1: a request whose index search returns zero chunks ends with a not-found
\* outcome (404), which the caller can tell apart from an internal failure
\* (500) such as a failed embedding or a failed index query.
C1_NoChunksIsNotFound ==
    (g_pc = "done" /\ g_searched /\ g_chunks = <<>>)
        => (g_out.status = 404 /\ g_out.status # 500)

\* C2: when the response parses to a list of which no entry meets the Test
\* Case invariants, the request ends with a not-found outcome (404), distinct
\* from the outcome of a failed generative call or a failed parse (500).
C2_NoValidEntryIsNotFound ==
    (ListReturned /\ \A i \in 1..Len(g_ret.val.items) :
                         ~MeetsInvariants(g_ret.val.items[i]))
        => (g_out.status = 404 /\ g_out.status # 500)

\* C3: for every list the generative step returns, the entries that fail the
\* Test Case invariants are dropped and do not fail the request: with at least
\* one valid entry the request succeeds, and every test case of a successful
\* response has the four fields non-empty after trimming and is the test case
\* of a valid entry of the list.
C3_BadEntriesDropped ==
    ListReturned =>
        LET items == g_ret.val.items
        IN  /\ (\E i \in 1..Len(items) : MeetsInvariants(items[i]))
                   => g_out.status = 200
            /\ g_out.status = 200 =>
                   \A k \in 1..Len(g_out.test_cases) :
                       /\ \A f \in Fields : NonBlank(g_out.test_cases[k][f])
                       /\ \E i \in 1..Len(items) :
                              /\ MeetsInvariants(items[i])
                              /\ g_out.test_cases[k] = CaseOf(items[i])

\* C3 witness: a list with padded, blank-field and plain entries gave a
\* successful response of the two valid ones
C3_Witness ==
    /\ ListReturned
    /\ g_ret.val.items = <<"e_pad", "e_result_blank", "e_ok">>
    /\ g_out.status = 200
    /\ Len(g_out.test_cases) = 2

\* C4: on success the returned test cases are exactly the first
\* min(requested count, v) of the v valid entries of the list, in the order of
\* the list.
C4_FirstValidInOrder ==
    (ListReturned /\ g_out.status = 200) =>
        LET valid == SelectSeq(g_ret.val.items, MeetsInvariants)
            n == Min(g_req.max_test_cases, Len(valid))
        IN  /\ Len(g_out.test_cases) <= g_req.max_test_cases
            /\ g_out.test_cases = [k \in 1..n |-> CaseOf(valid[k])]

\* C4 witness: three valid entries, two requested, and the first two returned
C4_Witness ==
    /\ ListReturned
    /\ g_ret.val.items = <<"e_pad", "e_ok", "e_ok">>
    /\ g_req.max_test_cases = 2
    /\ g_out.status = 200
    /\ g_out.test_cases = <<CaseOf("e_pad"), CaseOf("e_ok")>>

\* A response that is an object of the one key "test_cases", and its value
IsWrapped(text) ==
    /\ Len(text) >= 5
    /\ SubSeq(text, 1, 3) = <<"{", "test_cases", ":">>
    /\ text[Len(text)] = "}"

Unwrapped(text) == SubSeq(text, 4, Len(text) - 1)

\* A text that is a JSON array of entries
IsListText(text) ==
    LET loaded == JsonLoads(text)
    IN  Len(text) >= 2 /\ text[1] = "[" /\ loaded.ok /\ IsList(loaded.val)

\* C5: a response that wraps the list under the key "test_cases" is accepted
\* and gives the same list, and the same response to the request, as the
\* response that is the bare list.
C5_WrapperSameAsBareList ==
    (g_pc = "done" /\ g_called /\ IsWrapped(g_raw) /\ IsListText(Unwrapped(g_raw)))
        => /\ g_ret.ok
           /\ g_ret = ParseTestCases(Unwrapped(g_raw))
           /\ g_out = GenerationOutcome(ParseTestCases(Unwrapped(g_raw)),
                                        g_query, g_req.max_test_cases)

\* C5 witness: a wrapped list of two valid entries was accepted
C5_Witness ==
    /\ g_pc = "done"
    /\ g_raw = WrapText("test_cases", ListText(<<"e_pad", "e_ok">>))
    /\ g_ret.ok
    /\ g_ret.val = JList(<<"e_pad", "e_ok">>)
    /\ g_out.status = 200

\* A response that is a body inside a code fence opened by `open`
IsFenced(text, open) ==
    /\ Len(text) >= Len(open) + Len(FenceEnd) + 2
    /\ StartsWith(text, open \o <<"\n">>)
    /\ EndsWith(text, <<"\n">> \o FenceEnd)

FenceBody(text, open) == SubSeq(text, Len(open) + 2, Len(text) - Len(FenceEnd) - 1)

\* C6: a valid test-case list inside a markdown code fence, opened with or
\* without a language tag and closed, parses to the same list as the list
\* without the fence.
C6_FenceSameAsBare ==
    \A open \in {FenceJson, FencePlain} :
        (g_pc = "done" /\ g_called /\ IsFenced(g_raw, open)
             /\ IsListText(FenceBody(g_raw, open)))
            => g_ret = ParseTestCases(FenceBody(g_raw, open))

\* text holds part as a contiguous run
Carries(text, part) ==
    \E i \in 0..(Len(text) - Len(part)) : SubSeq(text, i + 1, i + Len(part)) = part

\* The response parses neither to a list nor to an object holding "test_cases"
Unparsable(text) ==
    LET loaded == JsonLoads(CleanTestCaseText(text))
    IN  \/ ~loaded.ok
        \/ /\ ~IsList(loaded.val)
           /\ ~(IsDict(loaded.val) /\ HasKey(loaded.val, "test_cases"))

\* Every test case of the response is the test case of an entry of the parsed
\* output
NothingFabricated ==
    \A k \in 1..Len(g_out.test_cases) :
        /\ g_called
        /\ g_ret.ok
        /\ \E i \in 1..Len(IterEntries(g_ret.val).items) :
               LET entry == IterEntries(g_ret.val).items[i]
               IN  MeetsInvariants(entry) /\ g_out.test_cases[k] = CaseOf(entry)

Readable(file) == save_uploaded_file(file).ok /\ ParseUpload(file).ok

\* Batch b ended when the parser refused its k-th file
ParseFailedAt(b, k) ==
    /\ b_pc[b] = "raised"
    /\ b_k[b] = k
    /\ save_uploaded_file(b_files[b][k]).ok
    /\ ~ParseUpload(b_files[b][k]).ok
    /\ b_exc[b] = ParseUpload(b_files[b][k]).exc

\* Every chunk of the file is among the records batch b wrote to the index
WrittenBy(b, file) ==
    \A c \in 1..Len(split_text(file)) :
        \E n \in 1..Len(b_meta[b]) :
            /\ b_meta[b][n].source_file = file.filename
            /\ b_meta[b][n].chunk_index = c - 1
            /\ b_meta[b][n].text = split_text(file)[c]
            /\ \E r \in 1..Len(index) : index[r].metadata = b_meta[b][n]

\* C8: when the extraction of one file of a batch fails with a parse error,
\* only that file's ingestion fails: every readable file that follows it in the
\* batch (taken here when no earlier file of the batch bears its name) is still
\* extracted, chunked, embedded and written to the index.
C8_ParseErrorSparesSiblings ==
    \A b \in Batches : \A k \in 1..Len(b_files[b]) :
        ParseFailedAt(b, k) =>
            \A j \in (k + 1)..Len(b_files[b]) :
                (/\ Readable(b_files[b][j])
                 /\ \A h \in 1..(j - 1) :
                        b_files[b][h].filename # b_files[b][j].filename)
                    => WrittenBy(b, b_files[b][j])

\* The records of the index that carry one document_id, in insertion order
RecordsOf(doc_id) ==
    SelectSeq(index, LAMBDA r : r.metadata.document_id = doc_id)

\* C9: in every reachable state, under any interleaving of ingestion batches,
\* the records of one document_id carry the chunk_index values 0, 1, 2, ... with
\* no duplicate and no gap, in the order the splitter produced the chunks, all
\* of 0..m-1 once the document's ingestion has completed; and no two documents
\* share a document_id.
C9_ChunkIndexContiguous ==
    /\ \A d \in 1..Len(ingested) :
           LET recs == RecordsOf(ingested[d].document_id)
               chunks == ingested[d].chunks
           IN  /\ Len(recs) <= Len(chunks)
               /\ \A n \in 1..Len(recs) :
                      /\ recs[n].metadata.chunk_index = n - 1
                      /\ recs[n].metadata.text = chunks[n]
               /\ ingested[d].complete => Len(recs) = Len(chunks)
    /\ \A d1 \in 1..Len(ingested) : \A d2 \in 1..Len(ingested) :
           d1 # d2 => ingested[d1].document_id # ingested[d2].document_id
    /\ \A r \in 1..Len(index) : \E d \in 1..Len(ingested) :
           ingested[d].document_id = index[r].metadata.document_id

\* C9 witness: two batches wrote a document of two chunks each, their writes
\* taking turns, and both documents are complete
C9_Witness ==
    /\ Len(index) = 4
    /\ Len(ingested) = 2
    /\ \A d \in 1..2 : ingested[d].complete /\ Len(ingested[d].chunks) = 2
    /\ index[1].metadata.document_id = index[3].metadata.document_id
    /\ index[2].metadata.document_id = index[4].metadata.document_id
    /\ index[1].metadata.document_id # index[2].metadata.document_id
    /\ \A b \in Batches : b_pc[b] = "returned"

\* C10: for every list of n texts and every batch size, a call of embed_texts
\* that returns gives exactly n vectors, vector i being the embedding of text
\* i: also for n above one batch, n no multiple of the batch size, and n = 0.
C10_OneVectorPerTextInOrder ==
    e_pc = "returned" =>
        /\ e_out.ok
        /\ Len(e_out.val) = Len(e_texts)
        /\ \A k \in 1..Len(e_texts) : e_out.val[k] = Embedding(e_texts[k])

\* C10 witness: seventeen texts in batches of sixteen came back as seventeen
\* vectors
C10_Witness ==
    /\ e_pc = "returned"
    /\ e_texts = LongTexts
    /\ e_batch_size = DefaultBatchSize
    /\ Len(e_texts) > e_batch_size
    /\ Len(e_texts) % e_batch_size # 0
    /\ Len(e_out.val) = DefaultBatchSize + 1

\* C11: when the batch starting at offset i fails, the call fails with an
\* error that names offset i and returns no vector at all, neither those of the
\* earlier batches nor a list with the batch skipped, and no batch after the
\* failed one is dispatched.
C11_BatchFailureFailsCall ==
    e_pc = "raised" =>
        /\ ~e_out.ok
        /\ e_out.val = <<>>
        /\ e_out.exc.type = "RuntimeError"
        /\ e_out.exc.msg[2] = ToString(e_i)
        /\ e_i < Len(e_texts)
        /\ e_i % e_batch_size = 0
        /\ e_dispatched # <<>>
        /\ e_dispatched[Len(e_dispatched)] = e_i
        /\ \A n \in 1..Len(e_dispatched) : e_dispatched[n] = (n - 1) * e_batch_size

\* C11 witness: of seventeen texts the first sixteen were embedded and the
\* batch at offset 16 failed
C11_Witness ==
    /\ e_pc = "raised"
    /\ e_texts = LongTexts
    /\ e_i = DefaultBatchSize
    /\ Len(e_embeddings) = DefaultBatchSize
    /\ e_out.val = <<>>
    /\ e_out.exc.msg[2] = ToString(DefaultBatchSize)

\* The number of records of the index that build request b wrote
RecordsWrittenBy(b) ==
    Cardinality({n \in 1..Len(index) :
                    \E k \in 1..Len(b_meta[b]) : index[n].metadata = b_meta[b][k]})

\* C12: the response of a successful build reports two separate counts:
\* num_documents is the number of support documents of the request and
\* num_chunks the number of chunks written to the index for them.
C12_BuildCountsDocumentsAndChunks ==
    \A b \in Builders :
        b_pc[b] = "built" =>
            /\ b_resp[b].num_documents = Len(b_files[b])
            /\ b_resp[b].num_chunks = RecordsWrittenBy(b)

\* The file is saved and read, and its text is empty once stripped
NoText(file) == Readable(file) /\ split_text(file) = <<>>

\* Request b is past the extraction of its k-th file
ExtractedAt(b, k) ==
    \/ b_k[b] > k
    \/ b_k[b] = k /\ b_pc[b] \notin {"idle", "extract"}

\* C13: the ingestion of a document whose extracted text is empty after
\* normalization, a text or markdown file of only whitespace included, fails
\* with a parse error at that document; no document is ever counted as
\* ingested with zero chunks.
C13_EmptyTextIsParseError ==
    /\ \A b \in Builders : \A k \in 1..Len(b_files[b]) :
           (NoText(b_files[b][k]) /\ ExtractedAt(b, k)) =>
               /\ b_pc[b] = "raised"
               /\ b_k[b] = k
               /\ b_exc[b].status \in {400, 415, 500}
    /\ \A d \in 1..Len(ingested) :
           ingested[d].complete => ingested[d].chunks # <<>>

\* The number of characters of a chunk, and of those two chunks share
CharsOf(doc) == doc[2] - doc[1] + 1

Shared(doc1, doc2) ==
    IF doc1[2] < doc2[1] THEN 0 ELSE Min(doc1[2], doc2[2]) - doc2[1] + 1

\* The text of n characters was split, embedded and written
SplitIngested(b, n) ==
    b_pc[b] = "returned" /\ s_pc = "done" /\ s_n = n

\* The index holds one record per chunk, chunk_index from 0 in the order of
\* the chunks
RecordPerChunk ==
    /\ Len(index) = Len(s_docs)
    /\ \A j \in 1..Len(index) :
           /\ index[j].metadata.chunk_index = j - 1
           /\ index[j].metadata.text = ChunkText(s_docs[j])

\* C14 as stated: a plain-text document of 2500 characters, split with chunk
\* size 1000 and overlap 200, is written as exactly 4 records of chunk_index
\* 0..3, each of at most 1000 characters, consecutive chunks sharing at most
\* 200 characters.
C14_FourChunksOf2500 ==
    \A b \in Splitters :
        SplitIngested(b, 2500) =>
            /\ RecordPerChunk
            /\ Len(index) = 4
            /\ \A j \in 1..Len(s_docs) : CharsOf(s_docs[j]) <= ChunkSize
            /\ \A j \in 1..(Len(s_docs) - 1) :
                   Shared(s_docs[j], s_docs[j + 1]) <= ChunkOverlap

\* C14 amended: a text without separator is written as one record per chunk,
\* chunk_index from 0; the chunks cover the text in order, each of at most
\* 1000 characters, each after the first beginning 800 characters after the one
\* before it and sharing exactly 200 characters with it, and the last chunk is
\* never contained in the one before it: 2500 characters give exactly 3
\* records, of 1000, 1000 and 900 characters.
C14_ChunksStride800 ==
    \A b \in Splitters :
        (b_pc[b] = "returned" /\ s_pc = "done") =>
            /\ RecordPerChunk
            /\ s_docs # <<>>
            /\ s_docs[1][1] = 1
            /\ s_docs[Len(s_docs)][2] = s_n
            /\ \A j \in 1..Len(s_docs) :
                   /\ CharsOf(s_docs[j]) >= 1
                   /\ CharsOf(s_docs[j]) <= ChunkSize
            /\ \A j \in 1..(Len(s_docs) - 1) :
                   /\ s_docs[j + 1][1] = s_docs[j][1] + (ChunkSize - ChunkOverlap)
                   /\ CharsOf(s_docs[j]) = ChunkSize
                   /\ s_docs[j + 1][2] > s_docs[j][2]
                   /\ Shared(s_docs[j], s_docs[j + 1]) = ChunkOverlap
            /\ s_n = 2500 =>
                   /\ Len(index) = 3
                   /\ s_docs = <<(<<1, 1000>>), (<<801, 1800>>), (<<1601, 2500>>)>>

\* C14 witness: the text of 2500 characters is in the index as three records
C14_Witness ==
    /\ SplitIngested("b1", 2500)
    /\ Len(index) = 3
    /\ index[3].metadata.chunk_index = 2
    /\ index[3].metadata.text = <<"chars", "1601", "2500">>

\* C15: the pipeline runs the embedding, the search and the generation only
\* for a query of 3 to 512 characters: a request whose query, as the pipeline
\* uses it (trimmed by the handler), is empty or shorter than 3 characters ends
\* with a validation error, and no embedding, search or generative call is made
\* for it.
C15_ShortQueryIsRefused ==
    (g_pc # "idle" /\ Len(g_query) < MinQueryLength) =>
        /\ g_pc = "done"
        /\ g_out.status \in {400, 422}
        /\ g_qemb = NoVec
        /\ ~g_searched
        /\ ~g_called

\* The request passed the schema and the checks of the handler
Accepted(payload) ==
    /\ ValidRequest(payload)
    /\ Strip(payload.query) # <<>>

\* C16: an absent API credential fails the process at its start; at no step
\* of a run is a request accepted, processed in part and then failed because
\* the credential is missing.
C16_NoRequestFailsForCredential ==
    [][(~api_key /\ g_pc = "idle") =>
          ~(g_pc' = "done" /\ Accepted(g_req') /\ g_out'.status = 500)]_vars

\* One of the four fields of the test case sent is missing, null, empty or
\* only whitespace
LacksField(payload) ==
    \E f \in Fields :
        \/ EntryGet(payload, f) = None
        \/ Strip(EntryGet(payload, f)) = <<>>

\* The request was refused with neither the document read nor the model called
RefusedUnread ==
    /\ sc_pc = "done"
    /\ sc_out.status \in {400, 422}
    /\ sc_context = None
    /\ ~sc_called

\* C17 as stated: a script request whose test case lacks one of its four
\* fields is refused before the reference document is read and before the
\* generative model is called; the test_id of a successful response equals the
\* test_id of the request.
C17_ResponseBearsRequestId ==
    /\ (sc_pc # "idle" /\ LacksField(sc_req)) => RefusedUnread
    /\ (sc_pc = "done" /\ sc_out.status = 200) =>
           sc_out.test_id = EntryGet(sc_req, "test_id")

\* C17 amended: such a request is refused before the document is read and
\* the model called; the test_id of a successful response is the test_id of
\* the request with the whitespace around it removed.
C17_ResponseBearsStrippedId ==
    /\ (sc_pc # "idle" /\ LacksField(sc_req)) => RefusedUnread
    /\ (sc_pc = "done" /\ sc_out.status = 200) =>
           /\ ~LacksField(sc_req)
           /\ sc_out.test_id = Strip(EntryGet(sc_req, "test_id"))

\* C17 witness: the request with the test_id " b" was answered with "b"
C17_Witness ==
    /\ sc_pc = "done"
    /\ sc_out.status = 200
    /\ EntryGet(sc_req, "test_id") = <<" ", "b">>
    /\ sc_out.test_id = <<"b">>

C19_SuccessIffExitZero ==
    x_pc = "done" =>
        /\ x_ret.success <=> (x_proc = "exited" /\ x_script.returncode = 0)
        /\ x_ret.success =>
               /\ x_ret.error = None
               /\ x_ret.stdout = x_script.stdout
               /\ x_ret.stderr = x_script.stderr

\* C20: when the timeout passes with the process running, run_script ends the
\* process and returns success false, empty stdout and stderr and the timeout
\* marker; it never returns while the process runs, and never returns output
\* the ended process had written.
C20_TimeoutKillsAndReturnsNothing ==
    /\ x_pc = "done" => x_proc # "running"
    /\ (x_pc = "done" /\ x_proc = "killed") =>
           /\ ~x_ret.success
           /\ x_ret.stdout = <<>>
           /\ x_ret.stderr = <<>>
           /\ x_ret.error = <<"Execution timed out">>
    /\ (x_pc = "done" /\ x_ret.error = <<"Execution timed out">>) =>
           x_proc = "killed"

\* C20 witness: the process had written "OK" when the timeout ended it, and
\* the result holds no output
C20_Witness ==
    /\ x_pc = "done"
    /\ x_proc = "killed"
    /\ x_written
    /\ x_script.stdout = <<"OK">>
    /\ x_ret = TimedOut(<<>>, <<>>)

\* C21: when run_script has ended, on whichever path (exit with zero or
\* another status, timeout, failure to start the process, failure to write the
\* script text to the temporary file), the temporary file it created no
\* longer exists.
C21_TempFileAlwaysRemoved ==
    x_pc \in {"done", "raised"} => ~x_tmp

\* C22: no step of a test-case request or of a script request changes the
\* index, whether the request succeeds or fails at any step: the records after
\* the request are the records before it.
C22_RequestsLeaveIndex ==
    [][(g_pc' # g_pc \/ sc_pc' # sc_pc) => index' = index]_vars

\* C22 witness: over an index of records both requests were answered with 200
C22_Witness ==
    /\ g_pc = "done" /\ g_out.status = 200
    /\ sc_pc = "done" /\ sc_out.status = 200
    /\ index = SampleIndex

\* C23: under any interleaving of ingestion and generation requests at most
\* one engine is ever constructed, by the first call that finds none, and every
\* call after it is given that same engine.
C23_OneEngine ==
    /\ m_built <= 1
    /\ m_instance = m_built
    /\ \A c \in Callers : m_used[c] \in {0, m_instance}
    /\ \A c \in Callers : m_pc[c] = "embedding" => m_used[c] = 1

\* C23 witness: the three requests await embed_texts at the same time on the
\* one engine, one of them on its second call
C23_Witness ==
    /\ \A c \in Callers : m_pc[c] = "embedding" /\ m_used[c] = 1
    /\ m_built = 1
    /\ m_calls["generate"] = 2

\* The steps of a request: what each state of the request rests on
StepsInOrder ==
    /\ g_pc = "searching" => (g_qemb # NoVec /\ ~g_searched /\ ~g_called)
    /\ g_searched => g_qemb # NoVec
    /\ g_pc = "generating" => (g_searched /\ g_chunks # <<>> /\ ~g_called)
    /\ g_called => (g_pc = "done" /\ g_searched /\ g_chunks # <<>>)

\* C24: within one test-case request the steps run in order, each after the
\* one before it succeeded: the index is searched only once the query embedding
\* is there; the generative model is called only after the search returned at
\* least one chunk, once for a request that comes to it, with no second call
\* after its answer or its failure, and never after a failed validation,
\* embedding or search.
C24_StepsInOrderOneCall ==
    /\ []StepsInOrder
    /\ [][/\ (g_pc' = "searching" /\ g_pc # "searching") => g_pc = "embedding"
          /\ (g_pc' = "generating" /\ g_pc # "generating") => g_pc = "searching"
          /\ g_pc = "generating" => g_pc' \in {"generating", "done"}
          /\ g_pc = "done" => g_pc' = "done"]_vars

\* C24 witness: a request went through embedding, search and one generative
\* call and was answered with test cases
C24_Witness ==
    /\ g_pc = "done"
    /\ g_called
    /\ g_out.status = 200
    /\ g_out.test_cases # <<>>
    /\ Len(g_chunks) >= 2

\* The chunks of the files of batch b before its k-th, as file name, position
\* and text, in the order they are written
RECURSIVE ChunksBefore(_, _)
ChunksBefore(b, k) ==
    IF k <= 1 THEN <<>>
    ELSE LET file == b_files[b][k - 1]
             chunks == IF Readable(file) THEN split_text(file) ELSE <<>>
         IN  ChunksBefore(b, k - 1)
                 \o [c \in 1..Len(chunks) |-> <<file.filename, c - 1, chunks[c]>>]

\* What batch b has written: every chunk of the files before the current
\* one, and the first n chunks of the current one
WrittenUpTo(b, n) ==
    LET before == ChunksBefore(b, b_k[b])
        file == b_files[b][b_k[b]]
    IN  /\ Len(b_meta[b]) = Len(before) + n
        /\ \A j \in 1..Len(before) :
               <<b_meta[b][j].source_file, b_meta[b][j].chunk_index,
                 b_meta[b][j].text>> = before[j]
        /\ \A c \in 1..n :
               LET md == b_meta[b][Len(before) + c]
               IN  /\ md.source_file = file.filename
                   /\ md.chunk_index = c - 1
                   /\ md.text = split_text(file)[c]
                   /\ md.document_id = b_doc_id[b]

\* Every record of the index is whole and was written by one batch, and the
\* index holds nothing else
RecordsWhole ==
    /\ \A r \in 1..Len(index) :
           /\ DOMAIN index[r] = {"metadata", "vec"}
           /\ DOMAIN index[r].vec = {"vec"}
           /\ DOMAIN index[r].metadata =
                  {"chunk_index", "document_id", "source_file", "text"}
           /\ \E b \in Batches : \E j \in 1..Len(b_meta[b]) :
                  b_meta[b][j] = index[r].metadata
    /\ \A b \in Batches : \A j \in 1..Len(b_meta[b]) :
           \E r \in 1..Len(index) : index[r].metadata = b_meta[b][j]

\* C25: in every state, also after a failure of extraction, embedding or
\* index write in the middle of a batch, the records of a document in the
\* index are the first chunks of the document in chunk_index order, each record
\* whole; a document whose extraction or embedding failed has no record; and
\* a batch returns only when every chunk of its documents is written.
C25_PrefixOfWholeRecords ==
    /\ RecordsWhole
    /\ \A b \in Batches :
           /\ b_pc[b] = "idle" => b_meta[b] = <<>>
           /\ b_pc[b] \in {"extract", "embed"} => WrittenUpTo(b, 0)
           /\ b_pc[b] = "add" =>
                  (b_i[b] < Len(b_chunks[b]) /\ WrittenUpTo(b, b_i[b]))
           /\ (b_pc[b] = "raised" /\ b_exc[b].type = "HTTPException") =>
                  WrittenUpTo(b, 0)
           /\ (b_pc[b] = "raised" /\ b_exc[b].type # "HTTPException") =>
                  (b_i[b] < Len(b_chunks[b]) /\ WrittenUpTo(b, b_i[b]))
           /\ (b_pc[b] = "returned" /\ b_files[b] # <<>>) =>
                  /\ b_k[b] = Len(b_files[b])
                  /\ WrittenUpTo(b, Len(split_text(b_files[b][b_k[b]])))

\* C25 witness: the write of the second chunk of a document failed after the
\* whole document before it and its own first chunk were written, while the
\* other batch failed at the embedding of its first document
C25_Witness ==
    /\ b_pc["b1"] = "raised"
    /\ b_exc["b1"].type = "RuntimeError"
    /\ b_k["b1"] = 2
    /\ b_i["b1"] = 1
    /\ Len(b_meta["b1"]) = 2
    /\ b_pc["b2"] = "raised"
    /\ b_exc["b2"].type = "HTTPException"
    /\ b_meta["b2"] = <<>>
    /\ Len(index) = 2

\* C26: every record written by ingestion pairs the metadata of chunk i of its
\* document (text, chunk_index = i) with the vector the embedding engine gives
\* for that chunk text, also for a document of more chunks than one embedding
\* batch and while another batch writes; no record carries the vector of
\* another chunk.
C26_VectorOfOwnChunk ==
    \A r \in 1..Len(index) :
        \E d \in 1..Len(ingested) :
            LET chunks == ingested[d].chunks
                i == index[r].metadata.chunk_index
            IN  /\ ingested[d].document_id = index[r].metadata.document_id
                /\ i < Len(chunks)
                /\ index[r].metadata.text = chunks[i + 1]
                /\ index[r].vec = embed_batch(<<chunks[i + 1]>>)[1]

\* C26 witness: the long document is written to its last chunk, which is
\* embedded in the second batch of the engine, and a record of the other
\* ingestion batch lies between two of its records
C26_Witness ==
    /\ ingested # <<>>
    /\ \E r \in 1..Len(index) :
           /\ index[r].metadata.chunk_index = DefaultBatchSize
           /\ index[r].metadata.text = LongTexts[DefaultBatchSize + 1]
    /\ \E r1 \in 1..Len(index) : \E r2 \in 1..Len(index) : \E r3 \in 1..Len(index) :
           /\ r1 < r2
           /\ r2 < r3
           /\ index[r1].metadata.document_id = index[r3].metadata.document_id
           /\ index[r2].metadata.document_id # index[r1].metadata.document_id

\* Whether the request has come to the index search
ReachedSearch == g_pc = "searching" \/ g_searched \/ g_top_k # 0

\* C27: the index search of a test-case request asks for
\* top_k = min(3 * count, 20) records for every requested count in 1..50, that
\* is 3 for a count of 1, 18 for 6 and 20 for every count of 7 or more; a
\* request with a count outside 1..50 never reaches the search.
C27_TopKOfCount ==
    LET count == g_req.max_test_cases
    IN  /\ ReachedSearch =>
               /\ count \in 1..50
               /\ g_top_k = (IF 3 * count < 20 THEN 3 * count ELSE 20)
               /\ count = 1 => g_top_k = 3
               /\ count = 6 => g_top_k = 18
               /\ count >= 7 => g_top_k = 20
        /\ (g_pc # "idle" /\ count \notin 1..50) =>
               (g_pc = "done" /\ ~ReachedSearch /\ g_out.status \in {400, 422})

\* C27 witness: a request for seven test cases was answered after a search
\* for twenty records
C27_Witness ==
    /\ g_pc = "done"
    /\ g_out.status = 200
    /\ g_searched
    /\ g_req.max_test_cases = 7
    /\ g_top_k = 20

\* Runs of blanks at the edges of a response
Blanks == SeqsUpTo(Whitespace, 2)

\* The text is the response with an opening fence (a python fence where the
\* response starts with one) and a closing fence taken off where there is
\* one, and the blanks around it trimmed; nothing else differs
FencesAndBlanksOff(text, response) ==
    \E opening \in {<<>>, FencePlain, FencePython} :
    \E closing \in {<<>>, FenceEnd} :
    \E w1 \in Blanks : \E w2 \in Blanks : \E w3 \in Blanks : \E w4 \in Blanks :
        /\ response = w1 \o opening \o w2 \o text \o w3 \o closing \o w4
        /\ text = Strip(text)
        /\ opening = <<>> => ~StartsWith(Strip(response), FencePlain)
        /\ opening = FencePlain => ~StartsWith(Strip(response), FencePython)
        /\ closing = <<>> =>
               ~EndsWith(DropFirst(Strip(response), Len(opening)), FenceEnd)

\* C28: the script returned by script generation is the model's response with
\* an optional opening code fence and an optional closing code fence removed
\* and the surrounding whitespace trimmed, otherwise unchanged character for
\* character; a response that looks like structured data (starts with '{' or
\* '[') is returned as a successful result all the same, only with a warning.
C28_ScriptIsResponseUnfenced ==
    /\ (sc_pc = "done" /\ sc_out.status = 200) =>
           /\ FencesAndBlanksOff(sc_out.selenium_script, sc_raw)
           /\ sc_warned <=> (sc_out.selenium_script # <<>>
                                /\ sc_out.selenium_script[1] \in {"{", "["})
    /\ (sc_pc = "done" /\ sc_called /\ sc_raw # <<>>) => sc_out.status = 200
    /\ sc_warned => (sc_pc = "done" /\ sc_out.status = 200)

\* C28 witness: a fenced response that holds a JSON object was returned
\* without its fences, as a success, with the warning
C28_Witness ==
    /\ sc_pc = "done"
    /\ sc_out.status = 200
    /\ sc_raw = Fenced(FencePlain, <<"{", "}">>)
    /\ sc_out.selenium_script = <<"{", "}">>
    /\ sc_warned

\* The reference documents that were uploaded whole
WholeDocuments ==
    {OldCheckout} \cup {f.pieces : f \in {g \in CheckoutFiles : ~g.empty}}

\* C29: under any interleaving of a build with a script-generation request the
\* context the script generator reads is the whole content of one uploaded
\* reference document, the previous or the new one, never an empty or partly
\* written file; and a build whose reference upload is refused or fails leaves
\* the reference document stored before intact.
C29_ReferenceReadWholeAndKept ==
    /\ sc_called => sc_context \in WholeDocuments
    /\ \A b \in Builders : b_pc[b] = "raised" => checkout \in {None, OldCheckout}

\* The response is a wrapper object whose "test_cases" value is no list
WrapsNoList(llm_response_text) ==
    LET loaded == JsonLoads(CleanTestCaseText(llm_response_text))
    IN  /\ loaded.ok
        /\ IsDict(loaded.val)
        /\ HasKey(loaded.val, "test_cases")
        /\ ~IsList(GetItem(loaded.val, "test_cases"))

\* C30: RagAgent.generate_test_cases returns a list or fails: whenever it
\* returns for a wrapper-object response the value under "test_cases" is a
\* list, and a value that is no list is reported as a parse failure of the
\* generation, not as entries that were dropped.
C30_ReturnsListOrFails ==
    /\ g_ret.ok => IsList(g_ret.val)
    /\ (g_called /\ WrapsNoList(g_raw)) =>
           /\ ~g_ret.ok
           /\ g_ret.exc = RuntimeError(<<"Invalid JSON output from Gemini LLM.">>)
           /\ g_out = ErrorResponse(GenerationExcept(g_ret.exc))

====
